---- MODULE Spec2Model ----
(***************************************************************************)
(* duojp: exercise construction (server route api/exercise, unified        *)
(* multi-language builder) and answer grading (lib/api gradeUnifiedAnswer, *)
(* server route api/grade).                                                *)
(*                                                                         *)
(* Specifications: Spec (GET from the selected sentence on, then the       *)
(* page's submit), SpecCount (long sentences), SpecText (text primitives), *)
(* SpecSuitable (isSuitableSentence), SpecRequest (GET as its steps        *)
(* between awaits: the two caches, sentence selection, bounded retry),     *)
(* SpecShuffle (shuffle), SpecPost (POST of api/grade as its steps between *)
(* awaits), SpecPage (the exercise page: loads, language switches, tile    *)
(* clicks and drags, reset, submit), SpecPageClicks (the page without the  *)
(* drag events).                                                           *)
(*                                                                         *)
(* A string is a sequence of Unicode code points (naturals); a token is a  *)
(* string; a token list is a sequence of strings.  Code points used below: *)
(*   9 TAB, 10 LF, 32 SPACE, 34 ", 39 ', 45 -, 46 ., 58 :, 65 A, 97 a,     *)
(*   8220 left curly double quote, 8221 right curly double quote,          *)
(*   8230 horizontal ellipsis, 12288 ideographic space,                    *)
(*   12290 ideographic full stop, 12354 HIRAGANA A, 12356 HIRAGANA I,      *)
(*   12358 HIRAGANA U, 12360 HIRAGANA E, 12362 HIRAGANA O,                 *)
(*   65306 fullwidth colon, 65313 fullwidth A, 65374 fullwidth tilde,      *)
(*   20320 CJK NI, 44032 HANGUL GA, 45208 HANGUL NA.                       *)
(***************************************************************************)
EXTENDS Naturals, Integers, Sequences, FiniteSets, TLC

VARIABLES
    sentence,        \* the selected sentence: [translations: translated languages -> Translation]
    allDistractors,  \* distractors.json: languages with a pool -> token list
    exercises,       \* GET's response body: languages built -> LanguageExercise
    selected,        \* per language, buildExerciseForLanguage's local selectedDistractors
    numTarget,       \* per language, buildExerciseForLanguage's local numDistractors
    language,        \* the language of the last grade call
    userTokens,      \* the token list of the last grade call
    result,          \* the last GradeResult, or NoResult
    strA, strB,      \* text primitives: the two strings compared
    normA, normB,    \* normalize (lib/api) of strA, strB
    srvA, srvB,      \* normalizeForGrading (api/grade) of strA, strB
    validA,          \* isValidToken(strA)
    suitableA,       \* isSuitableSentence of a sentence whose English source is strA
    cachedManifest,  \* module variable cachedManifest: Null or Some(manifest)
    cachedDistractors, \* module variable cachedDistractors: Null or Some(pools)
    corpus,          \* the static files under /data-unified
    req,             \* the builder requests of the process: request -> its position and locals
    hist,            \* history: successful cache loads, whether requests overlapped
    shuffleInput,    \* shuffle: the argument, as the caller holds it
    shuffleChoices,  \* shuffle: the random indices the loop drew
    shuffleOutput,   \* shuffle: the returned array
    unifiedExercise, \* page: Null or Some(response of api/exercise)
    answerTiles,     \* page: the tiles of the answer zone, in order
    bankTiles,       \* page: the tiles of the bank, in order
    loading,         \* page: loadExercise is awaiting the response
    languageStates,  \* page: language -> Null or Some(saved answer and bank tiles)
    leftStates,      \* history: language -> Null or Some(tiles it had when it was left)
    loadFailed,      \* history: the last loadExercise call failed
    gradeBody,       \* api/grade: the parsed request body
    gradeCall,       \* api/grade: position of POST, state of its chunk fetch and of the body read
    gradeResponse,   \* api/grade: Null or Some(response)
    gradeLog,        \* history: chunk fetches and normalizations of the POST
    pc               \* "idle" | "served" | "graded"; "text" | "validated" | "normalized";
                     \* "english" | "checked"; "serving"

vars == <<sentence, allDistractors, exercises, selected, numTarget, language,
          userTokens, result, strA, strB, normA, normB, srvA, srvB, validA,
          suitableA, cachedManifest, cachedDistractors, corpus, req, hist,
          shuffleInput, shuffleChoices, shuffleOutput, unifiedExercise, answerTiles, bankTiles,
          loading, languageStates, leftStates, loadFailed,
          gradeBody, gradeCall, gradeResponse, gradeLog, pc>>

builderVars == <<sentence, allDistractors, exercises, selected, numTarget>>
graderVars == <<language, userTokens, result>>
textVars == <<strA, strB, normA, normB, srvA, srvB, validA, suitableA>>
requestVars == <<cachedManifest, cachedDistractors, corpus, req, hist>>
shuffleVars == <<shuffleInput, shuffleChoices, shuffleOutput>>
pageVars == <<unifiedExercise, answerTiles, bankTiles, loading, languageStates,
              leftStates, loadFailed>>
postVars == <<gradeBody, gradeCall, gradeResponse, gradeLog>>

----------------------------------------------------------------------------
(* Generic sequence helpers *)

Min(a, b) == IF a < b THEN a ELSE b
Max(a, b) == IF a > b THEN a ELSE b

Range(s) == {s[i] : i \in 1..Len(s)}

\* Array.prototype.join on a list of strings
RECURSIVE join(_, _)
join(tokens, sep) ==
    IF Len(tokens) = 0 THEN <<>>
    ELSE IF Len(tokens) = 1 THEN tokens[1]
    ELSE tokens[1] \o sep \o join(Tail(tokens), sep)

\* s with every code point of the set chars removed
RECURSIVE RemoveChars(_, _)
RemoveChars(s, chars) ==
    IF Len(s) = 0 THEN <<>>
    ELSE IF s[1] \in chars THEN RemoveChars(Tail(s), chars)
    ELSE <<s[1]>> \o RemoveChars(Tail(s), chars)

----------------------------------------------------------------------------
(* ECMAScript text primitives *)

\* WhiteSpace and LineTerminator code points: what \s matches and trim() strips
WhiteSpaceChars ==
    {9, 10, 11, 12, 13, 32, 160, 5760, 8232, 8233, 8239, 8287, 12288, 65279}
        \cup (8192..8202)

\* String.prototype.trim
RECURSIVE trim(_)
trim(s) ==
    IF Len(s) = 0 THEN s
    ELSE IF s[1] \in WhiteSpaceChars THEN trim(Tail(s))
    ELSE IF s[Len(s)] \in WhiteSpaceChars THEN trim(SubSeq(s, 1, Len(s) - 1))
    ELSE s

\* NFKC of one code point, for the code points without combining behaviour
\* used in this model: fullwidth ASCII variants U+FF01..U+FF5E fold to ASCII,
\* the ideographic space to SPACE, the horizontal ellipsis to three full
\* stops; hiragana, ASCII, curly quotes and CJK brackets are unchanged.
nfkcChar(c) ==
    IF c \in 65281..65374 THEN <<c - 65248>>
    ELSE IF c = 12288 THEN <<32>>
    ELSE IF c = 8230 THEN <<46, 46, 46>>
    ELSE <<c>>

\* String.prototype.normalize('NFKC')
RECURSIVE nfkc(_)
nfkc(s) == IF Len(s) = 0 THEN <<>> ELSE nfkcChar(s[1]) \o nfkc(Tail(s))

----------------------------------------------------------------------------
(* Exercise builder: routes/api/exercise (unified, multi-language) *)

Languages == {"ja", "zh", "ko", "tr"}

\* result before any grade call (null)
NoResult == [none |-> TRUE]

\* Punctuation characters the builder filters from tokens
PUNCTUATION_CHARS ==
    {12290, 65292, 12289, 65307, 65306, 65311, 65281, 8230, 8212, 183,
     12300, 12301, 12302, 12303, 65288, 65289, 12304, 12305, 12298, 12299,
     12296, 12297,
     8220, 8221, 8216, 8217,
     46, 44, 59, 58, 63, 33, 40, 41, 91, 93,
     34, 39, 45, 8211, 32, 9, 10,
     65374, 12316, 65294, 65287, 65282}

\* The character class of the two quotation-mark tests of isValidToken
QuotationMarks == {34, 8220, 8221, 39, 8216, 8217}

\* isValidToken without its quotation-mark test
isValidToken_AcceptsQuoted(token) ==
    /\ ~(Len(token) = 0 \/ Len(trim(token)) = 0)
    /\ ~(\A i \in 1..Len(token) : token[i] \in PUNCTUATION_CHARS)

isValidToken(token) ==
    IF Len(token) = 0 \/ Len(trim(token)) = 0 THEN FALSE
    ELSE IF \A i \in 1..Len(token) : token[i] \in PUNCTUATION_CHARS THEN FALSE
    ELSE IF token[1] \in QuotationMarks \/ token[Len(token)] \in QuotationMarks
         THEN FALSE
    ELSE TRUE

\* shuffle(array) with the loop's random indices given: js[i] is the position
\* (1-based, in 1..i) drawn for the swap with position i; the loop runs from
\* the last position down to the second.
RECURSIVE shuffleFrom(_, _, _)
shuffleFrom(res, i, js) ==
    IF i < 2 THEN res
    ELSE shuffleFrom([res EXCEPT ![i] = res[js[i]], ![js[i]] = res[i]], i - 1, js)

\* shuffle whose loop copies result[j] to result[i] without the swap
shuffle_Overwriting(array, js) ==
    LET RECURSIVE copyFrom(_, _)
        copyFrom(res, i) ==
            IF i < 2 THEN res
            ELSE copyFrom([res EXCEPT ![i] = res[js[i]]], i - 1)
    IN  copyFrom(array, Len(array))

\* shuffle whose loop stops one position early (i > 1 in place of i > 0)
shuffle_StopsEarly(array, js) ==
    LET RECURSIVE swapFrom(_, _)
        swapFrom(res, i) ==
            IF i < 3 THEN res
            ELSE swapFrom([res EXCEPT ![i] = res[js[i]], ![js[i]] = res[i]], i - 1)
    IN  swapFrom(array, Len(array))

shuffle(array, js) == shuffleFrom(array, Len(array), js)

\* Every sequence of random indices the loop of shuffle can draw on n elements
RECURSIVE ChoiceSeqs(_)
ChoiceSeqs(n) ==
    IF n = 0 THEN {<<>>}
    ELSE {Append(js, j) : js \in ChoiceSeqs(n - 1), j \in 1..n}

\* The random indices drawn on n elements when every Math.random() call
\* returns r / RandomDenominator: j = floor(random * (i + 1)), 0-based
RandomDenominator == 4
ConstantChoices(n, r) == [i \in 1..n |-> ((r * i) \div RandomDenominator) + 1]

\* correctTokens without the filter
correctTokens_Unfiltered(translation) == translation.tokens

correctTokens(translation) == SelectSeq(translation.tokens, isValidToken)

\* numDistractors with Math.round in place of Math.floor
numDistractors_Rounded(n) == Min(Max(3, (n + 1) \div 2), 8)

\* numDistractors without its cap
numDistractors_Uncapped(n) == Max(3, n \div 2)

numDistractors(n) == Min(Max(3, n \div 2), 8)

\* availableDistractors without the correctSet test
availableDistractors_NoExclusion(translation, distractors) ==
    SelectSeq(distractors, isValidToken)

\* availableDistractors without the isValidToken test
availableDistractors_NoValidity(translation, distractors) ==
    LET correctSet == Range(SelectSeq(translation.tokens, isValidToken))
        notCorrect(d) == d \notin correctSet
    IN  SelectSeq(distractors, notCorrect)

availableDistractors(translation, distractors) ==
    LET correctSet == Range(correctTokens(translation))
        eligible(d) == d \notin correctSet /\ isValidToken(d)
    IN  SelectSeq(distractors, eligible)

\* shuffle(availableDistractors).slice(0, numDistractors)
selectedDistractors(translation, distractors, js) ==
    LET available == availableDistractors(translation, distractors)
        shuffled == shuffle(available, js)
        n == numDistractors(Len(correctTokens(translation)))
    IN  SubSeq(shuffled, 1, Min(n, Len(shuffled)))

buildExerciseForLanguage(translation, distractors, js1, js2) ==
    LET correct == correctTokens(translation)
        chosen == selectedDistractors(translation, distractors, js1)
        allTokens == correct \o chosen
        shuffledTokens == shuffle(allTokens, js2)
        tiles == [index \in 1..Len(shuffledTokens) |->
                     [id |-> index - 1, text |-> shuffledTokens[index]]]
    IN  [text |-> translation.text,
         tokens |-> correct,
         tiles |-> tiles,
         num_correct_tiles |-> Len(correct)]

----------------------------------------------------------------------------
(* Answer grader: lib/api (client) and routes/api/grade (server) *)

\* The character class of normalize's second replace
NormalizePunctuation ==
    {12290, 65292, 12289, 65307, 65306, 65311, 65281, 8230, 8212, 183,
     12300, 12301, 12302, 12303, 65288, 65289, 12304, 12305, 12298, 12299,
     34, 39, 12296, 12297,
     46, 44, 59, 58, 63, 33, 40, 41, 91, 93}

normalize(s) ==
    trim(RemoveChars(RemoveChars(s, WhiteSpaceChars), NormalizePunctuation))

\* PUNCTUATION_CHARS of routes/api/grade/+server.ts
GRADE_PUNCTUATION_CHARS ==
    {12290, 12289, 65294, 65292, 46, 44, 65281, 65311, 33, 63, 8230, 12539,
     12300, 12301, 12302, 12303, 65288, 65289, 40, 41, 12304, 12305,
     12296, 12297, 12298, 12299,
     65307, 65306, 8220, 8221, 8216, 8217, 8212, 65374}

normalizeForGrading(text) ==
    RemoveChars(RemoveChars(nfkc(text), WhiteSpaceChars), GRADE_PUNCTUATION_CHARS)

\* gradeUnifiedAnswer joining the submitted tokens with a space for Korean too
gradeUnifiedAnswer_SpaceForKorean(langExercise, tokens, lang) ==
    IF lang = "ko" \/ lang = "tr" THEN
        LET u == [i \in 1..Len(tokens) |-> normalize(tokens[i])]
            e == [i \in 1..Len(langExercise.tokens) |->
                     normalize(langExercise.tokens[i])]
        IN  [correct |-> Len(u) = Len(e) /\ \A i \in 1..Len(u) : u[i] = e[i],
             expected |-> langExercise.text,
             submitted |-> join(tokens, <<32>>)]
    ELSE
        [correct |-> normalize(join(tokens, <<>>)) = normalize(langExercise.text),
         expected |-> langExercise.text,
         submitted |-> join(tokens, <<>>)]

\* gradeUnifiedAnswer without the token count comparison
gradeUnifiedAnswer_NoLengthCheck(langExercise, tokens, lang) ==
    IF lang = "ko" \/ lang = "tr" THEN
        LET u == [i \in 1..Len(tokens) |-> normalize(tokens[i])]
            e == [i \in 1..Len(langExercise.tokens) |->
                     normalize(langExercise.tokens[i])]
        IN  [correct |-> \A i \in 1..Min(Len(u), Len(e)) : u[i] = e[i],
             expected |-> langExercise.text,
             submitted |-> join(tokens, IF lang = "tr" THEN <<32>> ELSE <<>>)]
    ELSE
        [correct |-> normalize(join(tokens, <<>>)) = normalize(langExercise.text),
         expected |-> langExercise.text,
         submitted |-> join(tokens, <<>>)]

\* gradeUnifiedAnswer comparing token sequences for every language
gradeUnifiedAnswer_TokensEverywhere(langExercise, tokens, lang) ==
    LET u == [i \in 1..Len(tokens) |-> normalize(tokens[i])]
        e == [i \in 1..Len(langExercise.tokens) |->
                 normalize(langExercise.tokens[i])]
    IN  [correct |-> Len(u) = Len(e) /\ \A i \in 1..Len(u) : u[i] = e[i],
         expected |-> langExercise.text,
         submitted |-> join(tokens, IF lang = "tr" THEN <<32>> ELSE <<>>)]

\* gradeUnifiedAnswer with a memory: once a verdict was correct, it grades
\* every answer correct until the verdict is cleared
gradeUnifiedAnswer_RemembersCorrect(langExercise, tokens, lang) ==
    LET remembered == result # NoResult /\ result.correct
    IN  IF lang = "ko" \/ lang = "tr" THEN
            LET u == [i \in 1..Len(tokens) |-> normalize(tokens[i])]
                e == [i \in 1..Len(langExercise.tokens) |->
                         normalize(langExercise.tokens[i])]
            IN  [correct |-> \/ remembered
                             \/ /\ Len(u) = Len(e)
                                /\ \A i \in 1..Len(u) : u[i] = e[i],
                 expected |-> langExercise.text,
                 submitted |-> join(tokens, IF lang = "tr" THEN <<32>> ELSE <<>>)]
        ELSE
            [correct |-> \/ remembered
                         \/ normalize(join(tokens, <<>>)) = normalize(langExercise.text),
             expected |-> langExercise.text,
             submitted |-> join(tokens, <<>>)]

gradeUnifiedAnswer(langExercise, tokens, lang) ==
    IF lang = "ko" \/ lang = "tr" THEN
        LET userTokensNormalized == [i \in 1..Len(tokens) |-> normalize(tokens[i])]
            expectedTokensNormalized ==
                [i \in 1..Len(langExercise.tokens) |->
                    normalize(langExercise.tokens[i])]
            isCorrect ==
                /\ Len(userTokensNormalized) = Len(expectedTokensNormalized)
                /\ \A i \in 1..Len(userTokensNormalized) :
                       userTokensNormalized[i] = expectedTokensNormalized[i]
        IN  [correct |-> isCorrect,
             expected |-> langExercise.text,
             submitted |-> join(tokens, IF lang = "tr" THEN <<32>> ELSE <<>>)]
    ELSE
        LET userAnswer == join(tokens, <<>>)
            normalizedUser == normalize(userAnswer)
            normalizedExpected == normalize(langExercise.text)
        IN  [correct |-> normalizedUser = normalizedExpected,
             expected |-> langExercise.text,
             submitted |-> userAnswer]

----------------------------------------------------------------------------
(* Inputs *)

MaxTokens == 2       \* longest token list of a translation (Spec)
MaxAnswer == 2       \* most tiles placed in the answer zone before submit (Spec)

\* hiragana A, hiragana I, ideographic full stop, left curly double quote
TokenVocabulary == {<<12354>>, <<12356>>, <<12290>>, <<8220>>}

RECURSIVE SeqsUpTo(_, _)
SeqsUpTo(S, n) ==
    IF n = 0 THEN {<<>>}
    ELSE LET shorter == SeqsUpTo(S, n - 1)
         IN  shorter \cup {Append(q, x) : q \in {r \in shorter : Len(r) = n - 1}, x \in S}

\* A translation's text is its tokens written without separator in Japanese
\* and Chinese, with separating spaces in Korean and Turkish
TranslationOf(lang, tk) ==
    [text |-> join(tk, IF lang \in {"ja", "zh"} THEN <<>> ELSE <<32>>),
     tokens |-> tk]

\* distractors.json entries: one holding hiragana A (a token of some
\* translations), a punctuation token and hiragana E; one holding a token that
\* starts with a quote, hiragana I (a token of some translations), hiragana O
\* and hiragana KA
SmallPool == <<<<12354>>, <<12290>>, <<12360>>>>
LargePool == <<<<34, 12360>>, <<12356>>, <<12362>>, <<12363>>>>
Pools == {SmallPool, LargePool}

\* A pool with more eligible tokens than the least distractor target: hiragana
\* A (a token of some translations), E, O, KA and KI
WidePool == <<<<12354>>, <<12360>>, <<12362>>, <<12363>>, <<12365>>>>

\* A pool whose tokens are a correct token followed by a full stop ("A.") and
\* two correct tokens written as one ("AI")
CompoundPool == <<<<12354, 46>>, <<12354, 12356>>>>

\* Japanese and Turkish sentences of the tokens A, I and of the token A
CompoundSentences ==
    {[translations |-> [l \in {lang} |-> TranslationOf(lang, tk)]] :
        lang \in {"ja", "tr"}, tk \in {<<<<12354>>, <<12356>>>>, <<<<12354>>>>}}

\* Japanese sentences of one token
OneTokenSentences ==
    {[translations |-> [l \in {"ja"} |-> TranslationOf("ja", <<token>>)]] :
        token \in TokenVocabulary}

SingleLanguageSentences ==
    {[translations |-> [l \in {lang} |-> TranslationOf(lang, tk)]] :
        lang \in Languages, tk \in SeqsUpTo(TokenVocabulary, MaxTokens)}

\* Sentences translated into two languages, with short translations
ShortTranslations ==
    {[text |-> <<12354, 12290>>, tokens |-> <<<<12354>>, <<12290>>>>],
     [text |-> <<12290>>, tokens |-> <<<<12290>>>>],
     [text |-> <<>>, tokens |-> <<>>]}

TwoLanguageSentences ==
    {[translations |-> tr] :
        tr \in UNION {[langs -> ShortTranslations] :
                        langs \in {ls \in SUBSET Languages : Cardinality(ls) = 2}}}

\* The sentences, each with the pool distractors.json holds and the languages
\* it holds that pool for
Inputs ==
    (SingleLanguageSentences \X Pools \X {Languages})
        \cup (OneTokenSentences \X {WidePool} \X {Languages})
        \cup (CompoundSentences \X {CompoundPool} \X {Languages})
        \cup (TwoLanguageSentences \X {SmallPool} \X {Languages, {"ja", "ko"}})

\* an object without keys
NoEntries == [l \in {} |-> <<>>]

TextIdle ==
    /\ strA = <<>> /\ strB = <<>> /\ normA = <<>> /\ normB = <<>>
    /\ srvA = <<>> /\ srvB = <<>> /\ validA = FALSE /\ suitableA = FALSE

\* null, and a value that is not null
Null == <<>>
Some(v) == <<v>>

\* No file, no request
RequestIdle ==
    /\ cachedManifest = Null
    /\ cachedDistractors = Null
    /\ corpus = [manifest |-> [total |-> 0, chunk_size |-> 1], chunks |-> <<>>,
                 distractors |-> NoEntries]
    /\ req = <<>>
    /\ hist = [manifestLoads |-> 0, distractorLoads |-> 0, overlap |-> FALSE]

\* shuffle not called
ShuffleIdle == shuffleInput = <<>> /\ shuffleChoices = <<>> /\ shuffleOutput = <<>>

\* No page
PageIdle ==
    /\ unifiedExercise = Null
    /\ answerTiles = <<>>
    /\ bankTiles = <<>>
    /\ loading = FALSE
    /\ languageStates = [l \in Languages |-> Null]
    /\ leftStates = [l \in Languages |-> Null]
    /\ loadFailed = FALSE

\* No grade request
PostIdle ==
    /\ gradeBody = [json |-> "none", fields |-> NoEntries]
    /\ gradeCall = [pc |-> "idle", fetch |-> "none", read |-> "none"]
    /\ gradeResponse = Null
    /\ gradeLog = [fetches |-> 0, normalizations |-> 0]

GraderIdle == language = "ja" /\ userTokens = <<>> /\ result = NoResult

Init ==
    /\ \E input \in Inputs :
          /\ sentence = input[1]
          /\ allDistractors = [l \in input[3] |-> input[2]]
    /\ exercises = NoEntries
    /\ selected = NoEntries
    /\ numTarget = NoEntries
    /\ GraderIdle
    /\ TextIdle
    /\ RequestIdle
    /\ ShuffleIdle /\ PageIdle /\ PostIdle
    /\ pc = "idle"

----------------------------------------------------------------------------
(* Operations *)

\* The languages GET's loop builds an exercise for
BuiltLanguages ==
    {lang \in DOMAIN sentence.translations :
        Len(sentence.translations[lang].tokens) > 0}

\* allDistractors[lang] || []
PoolOf(lang) ==
    IF lang \in DOMAIN allDistractors THEN allDistractors[lang] ELSE <<>>

\* One iteration of GET's loop over the languages, with the random indices of
\* the two shuffles given: the exercise stored under exercises[lang] with the
\* builder's locals selectedDistractors and numDistractors
LanguageOutcome(lang, js1, js2) ==
    LET translation == sentence.translations[lang]
        distractors == PoolOf(lang)
    IN  [exercise |-> buildExerciseForLanguage(translation, distractors, js1, js2),
         selected |-> selectedDistractors(translation, distractors, js1),
         num |-> numDistractors(Len(correctTokens(translation)))]

\* The lengths of the two arrays buildExerciseForLanguage shuffles
AvailableCount(lang) ==
    Len(availableDistractors(sentence.translations[lang], PoolOf(lang)))

AllTokensCount(lang) ==
    LET nCorrect == Len(correctTokens(sentence.translations[lang]))
    IN  nCorrect + Min(numDistractors(nCorrect), AvailableCount(lang))

\* Every outcome of the iteration for lang; NoResult stands for a skipped language
LanguageOutcomes(lang) ==
    IF lang \in BuiltLanguages
    THEN {LanguageOutcome(lang, js1, js2) :
             js1 \in ChoiceSeqs(AvailableCount(lang)),
             js2 \in ChoiceSeqs(AllTokensCount(lang))}
    ELSE {NoResult}

\* GET of routes/api/exercise, from the selected sentence on
GET ==
    /\ pc = "idle"
    /\ \E ja \in LanguageOutcomes("ja"), zh \in LanguageOutcomes("zh"),
          ko \in LanguageOutcomes("ko"), tr \in LanguageOutcomes("tr") :
          LET out == [l \in Languages |->
                         IF l = "ja" THEN ja ELSE IF l = "zh" THEN zh
                         ELSE IF l = "ko" THEN ko ELSE tr]
          IN  /\ exercises' = [l \in BuiltLanguages |-> out[l].exercise]
              /\ selected' = [l \in BuiltLanguages |-> out[l].selected]
              /\ numTarget' = [l \in BuiltLanguages |-> out[l].num]
    /\ pc' = "served"
    /\ UNCHANGED <<sentence, allDistractors, graderVars, textVars, requestVars, shuffleVars, pageVars, postVars>>

\* The token lists a learner can submit: the texts of up to k distinct tiles,
\* in any order
RECURSIVE TileOrders(_, _)
TileOrders(n, k) ==
    IF k = 0 THEN {<<>>}
    ELSE LET shorter == TileOrders(n, k - 1)
         IN  shorter \cup
             {Append(q, i) : q \in {r \in shorter : Len(r) = k - 1},
                             i \in 1..n}

Answers(tiles, k) ==
    {[i \in 1..Len(order) |-> tiles[order[i]].text] :
        order \in {o \in TileOrders(Len(tiles), k) :
                     /\ Len(o) > 0
                     /\ \A a, b \in 1..Len(o) : a # b => o[a] # o[b]}}

\* submit of the page, on the answer tiles placed for language lang
Submit ==
    /\ pc = "served"
    /\ \E lang \in DOMAIN exercises :
          /\ \E answer \in Answers(exercises[lang].tiles, MaxAnswer) :
                /\ language' = lang
                /\ userTokens' = answer
                /\ result' = gradeUnifiedAnswer(exercises[lang], answer, lang)
    /\ pc' = "graded"
    /\ UNCHANGED <<builderVars, textVars, requestVars, shuffleVars, pageVars, postVars>>

Next == GET \/ Submit

Spec == Init /\ [][Next]_vars

----------------------------------------------------------------------------
(* Long sentences: the distractor count policy *)

MaxLongTokens == 18   \* longest token list of a long translation
MaxPool == 11         \* longest distractor pool of a long sentence

\* n tokens alternating hiragana I and hiragana A; with every > 0, each
\* every-th token is an ideographic full stop
LongTokens(n, every) ==
    [i \in 1..n |->
        IF every > 0 /\ i % every = 0 THEN <<12290>>
        ELSE <<12354 + 2 * (i % 2)>>]

\* m pool tokens: hiragana A (a correct token), an ideographic full stop, then
\* distinct hiragana from KI on
LongPool(m) ==
    [i \in 1..m |->
        IF i = 1 THEN <<12354>>
        ELSE IF i = 2 THEN <<12290>>
        ELSE <<12362 + i>>]

LongSentences ==
    {[translations |-> [l \in {lang} |->
        [text |-> join(LongTokens(n, every), <<>>), tokens |-> LongTokens(n, every)]]] :
        lang \in {"ja", "tr"}, n \in 1..MaxLongTokens, every \in {0, 3}}

InitLong ==
    /\ sentence \in LongSentences
    /\ \E m \in 0..MaxPool : allDistractors = [l \in Languages |-> LongPool(m)]
    /\ exercises = NoEntries
    /\ selected = NoEntries
    /\ numTarget = NoEntries
    /\ GraderIdle
    /\ TextIdle
    /\ RequestIdle
    /\ ShuffleIdle /\ PageIdle /\ PostIdle
    /\ pc = "idle"

\* GET when every Math.random() call of the request returns r / RandomDenominator
GETConstantRandom ==
    /\ pc = "idle"
    /\ \E r \in 0..(RandomDenominator - 1) :
          LET out == [l \in BuiltLanguages |->
                         LanguageOutcome(l, ConstantChoices(AvailableCount(l), r),
                                            ConstantChoices(AllTokensCount(l), r))]
          IN  /\ exercises' = [l \in BuiltLanguages |-> out[l].exercise]
              /\ selected' = [l \in BuiltLanguages |-> out[l].selected]
              /\ numTarget' = [l \in BuiltLanguages |-> out[l].num]
    /\ pc' = "served"
    /\ UNCHANGED <<sentence, allDistractors, graderVars, textVars, requestVars, shuffleVars, pageVars, postVars>>

NextLong == GETConstantRandom

SpecCount == InitLong /\ [][NextLong]_vars

----------------------------------------------------------------------------
(* Text primitives on their own *)

MaxStrLen == 2        \* longest first string
MaxOtherLen == 1      \* longest second string

\* SPACE, ideographic space, ", left curly double quote, fullwidth ",
\* ideographic full stop, hiragana A, A, fullwidth A, fullwidth colon
TextAlphabet == {32, 12288, 34, 8220, 65282, 12290, 12354, 65, 65313, 65306}

InitText ==
    /\ strA \in SeqsUpTo(TextAlphabet, MaxStrLen)
    /\ strB \in SeqsUpTo(TextAlphabet, MaxOtherLen)
    /\ normA = <<>> /\ normB = <<>> /\ srvA = <<>> /\ srvB = <<>>
    /\ validA = FALSE
    /\ suitableA = FALSE
    /\ RequestIdle
    /\ ShuffleIdle /\ PageIdle /\ PostIdle
    /\ sentence = [translations |-> NoEntries]
    /\ allDistractors = NoEntries
    /\ exercises = NoEntries
    /\ selected = NoEntries
    /\ numTarget = NoEntries
    /\ GraderIdle
    /\ pc = "text"

\* isValidToken applied to strA
ValidateToken ==
    /\ pc = "text"
    /\ validA' = isValidToken(strA)
    /\ pc' = "validated"
    /\ UNCHANGED <<builderVars, graderVars, requestVars, shuffleVars, pageVars, postVars, strA, strB, normA, normB,
                   srvA, srvB, suitableA>>

\* the client's and the server's normalization applied to both strings
NormalizeStrings ==
    /\ pc = "text"
    /\ normA' = normalize(strA)
    /\ normB' = normalize(strB)
    /\ srvA' = normalizeForGrading(strA)
    /\ srvB' = normalizeForGrading(strB)
    /\ pc' = "normalized"
    /\ UNCHANGED <<builderVars, graderVars, requestVars, shuffleVars, pageVars, postVars, strA, strB, validA, suitableA>>

NextText == ValidateToken \/ NormalizeStrings

SpecText == InitText /\ [][NextText]_vars

----------------------------------------------------------------------------
(* shuffle on its own *)

MaxShuffleLen == 4    \* longest array shuffled

\* The arrays of distinct elements, up to MaxShuffleLen of them
DistinctArrays ==
    {a \in SeqsUpTo(1..MaxShuffleLen, MaxShuffleLen) :
        \A i, k \in 1..Len(a) : a[i] = a[k] => i = k}

InitShuffle ==
    /\ shuffleInput \in DistinctArrays
    /\ shuffleChoices = <<>>
    /\ shuffleOutput = <<>>
    /\ TextIdle
    /\ RequestIdle
    /\ PageIdle /\ PostIdle
    /\ sentence = [translations |-> NoEntries]
    /\ allDistractors = NoEntries
    /\ exercises = NoEntries
    /\ selected = NoEntries
    /\ numTarget = NoEntries
    /\ GraderIdle
    /\ pc = "array"

\* One call of shuffle: the loop draws js, the copy is returned and the
\* argument is left as it was (result = [...array])
CallShuffle ==
    /\ pc = "array"
    /\ \E js \in ChoiceSeqs(Len(shuffleInput)) :
          /\ shuffleChoices' = js
          /\ shuffleOutput' = shuffle(shuffleInput, js)
    /\ pc' = "shuffled"
    /\ UNCHANGED <<builderVars, graderVars, textVars, requestVars, pageVars, postVars,
                   shuffleInput>>

NextShuffle == CallShuffle

SpecShuffle == InitShuffle /\ [][NextShuffle]_vars

----------------------------------------------------------------------------
(* Server-side grading: routes/api/grade, POST *)

MaxAnswerLen == 2     \* longest answer string of a request body

\* JSON values of the body's properties, with what typeof gives for them
Number(n) == [type |-> "number", value |-> <<n>>]
String(str) == [type |-> "string", value |-> str]
JsonNull == [type |-> "object", value |-> <<>>]
JsonTrue == [type |-> "boolean", value |-> <<1>>]

\* typeof of a destructured property; a missing property is undefined
typeOf(fields, key) ==
    IF key \in DOMAIN fields THEN fields[key].type ELSE "undefined"

\* the sentences per chunk file
GradeChunkSize == 1000

\* The chunk files under a data path: /data has chunks 0 and 1, /data-zh has
\* chunk 0; chunk 0 of /data misses the record with id 2.
\* hiragana A, ideographic full stop, CJK NI (you), fullwidth colon
ChunkFiles(dataPath) ==
    IF dataPath = "/data-zh"
    THEN [c \in {0} |-> <<[id |-> 0, en |-> <<65>>, zh |-> <<20320, 65306>>]>>]
    ELSE [c \in {0, 1} |->
            IF c = 0
            THEN <<[id |-> 0, en |-> <<65>>, ja |-> <<12354, 12290>>],
                   [id |-> 1, en |-> <<65>>, ja |-> <<12354, 12354>>]>>
            ELSE <<[id |-> 1000, en |-> <<65>>, ja |-> <<12290>>]>>]

getDataPath(lang) == IF lang = "zh" THEN "/data-zh" ELSE "/data"

getTargetText(s, lang) == IF lang = "zh" THEN s.zh ELSE s.ja

\* Array.prototype.find by id: Null, or Some(first sentence with that id)
findById(chunk, id) ==
    LET hits == {i \in 1..Len(chunk) : chunk[i].id = id}
    IN  IF hits = {} THEN Null
        ELSE Some(chunk[CHOOSE i \in hits : \A k \in hits : i <= k])

\* What the request sends as exercise_id, answer and language
ExerciseIdValues ==
    {Number(n) : n \in {0, 1, 2, GradeChunkSize, 2 * GradeChunkSize}}
        \cup {String(<<48>>), JsonNull, JsonTrue}
AnswerValues ==
    {String(a) : a \in SeqsUpTo({12354, 12290, 65306, 20320}, MaxAnswerLen)}
        \cup {Number(0), JsonNull}
LanguageValues == {String(<<122, 104>>), String(<<106, 97>>), Number(0)}

\* the string 'zh'
IsZh(fields) ==
    /\ "language" \in DOMAIN fields
    /\ fields["language"] = String(<<122, 104>>)

\* A property set: some of the three keys, each with one of its values
FieldSets ==
    UNION {[keys -> ExerciseIdValues \cup AnswerValues \cup LanguageValues] :
              keys \in SUBSET {"exercise_id", "answer", "language"}}
Bodies ==
    {[json |-> "object", fields |-> f] :
        f \in {g \in FieldSets :
                 /\ "exercise_id" \in DOMAIN g => g["exercise_id"] \in ExerciseIdValues
                 /\ "answer" \in DOMAIN g => g["answer"] \in AnswerValues
                 /\ "language" \in DOMAIN g => g["language"] \in LanguageValues}}
        \cup {[json |-> "null", fields |-> NoEntries],
              [json |-> "unparsable", fields |-> NoEntries]}

ErrorResponse(status, message) ==
    [status |-> status, error |-> message]
VerdictResponse(correct, answer, expected) ==
    [status |-> 200, correct |-> correct, submitted |-> answer, expected |-> expected]

InitPost ==
    /\ gradeBody \in Bodies
    /\ gradeCall = [pc |-> "received", fetch |-> "none", read |-> "none"]
    /\ gradeResponse = Null
    /\ gradeLog = [fetches |-> 0, normalizations |-> 0]
    /\ TextIdle
    /\ RequestIdle
    /\ ShuffleIdle /\ PageIdle
    /\ sentence = [translations |-> NoEntries]
    /\ allDistractors = NoEntries
    /\ exercises = NoEntries
    /\ selected = NoEntries
    /\ numTarget = NoEntries
    /\ GraderIdle
    /\ pc = "post"

postOtherVars == <<builderVars, graderVars, textVars, requestVars, shuffleVars, pageVars, pc>>

\* the type test of POST with the test on answer left out
invalidBody_ExerciseIdOnly(fields) == typeOf(fields, "exercise_id") # "number"

\* typeof exercise_id !== 'number' || typeof answer !== 'string'
invalidBody(fields) ==
    typeOf(fields, "exercise_id") # "number" \/ typeOf(fields, "answer") # "string"

\* POST up to its first await of fetch: request.json() and the destructuring
\* throw on an unparsable or null body (caught: 500), the type test returns
\* 400, otherwise the chunk is requested.
PostBegin ==
    /\ gradeCall.pc = "received"
    /\ IF gradeBody.json # "object" THEN
           /\ gradeResponse' = Some(ErrorResponse(500, "Failed to grade"))
           /\ gradeCall' = [gradeCall EXCEPT !.pc = "done"]
           /\ UNCHANGED gradeLog
       ELSE IF invalidBody(gradeBody.fields) THEN
           /\ gradeResponse' = Some(ErrorResponse(400, "Invalid request body"))
           /\ gradeCall' = [gradeCall EXCEPT !.pc = "done"]
           /\ UNCHANGED gradeLog
       ELSE
           /\ gradeCall' = [pc |-> "chunk", fetch |-> "pending", read |-> "none"]
           /\ gradeLog' = [gradeLog EXCEPT !.fetches = @ + 1]
           /\ UNCHANGED gradeResponse
    /\ UNCHANGED <<gradeBody, postOtherVars>>

\* The chunk fetch settles: ok when the file exists, not ok when it does
\* not, or rejected
PostSettle ==
    /\ gradeCall.pc = "chunk"
    /\ gradeCall.fetch = "pending"
    /\ LET lang == IF IsZh(gradeBody.fields) THEN "zh" ELSE "ja"
           chunkIndex == gradeBody.fields["exercise_id"].value[1] \div GradeChunkSize
       IN  \E outcome \in {IF chunkIndex \in DOMAIN ChunkFiles(getDataPath(lang))
                           THEN "ok" ELSE "missing", "rejected"} :
               gradeCall' = [gradeCall EXCEPT !.fetch = outcome]
    /\ UNCHANGED <<gradeBody, gradeResponse, gradeLog, postOtherVars>>

\* POST from the settled fetch to its next await: a rejected fetch is
\* caught (500), a response that is not ok returns 404, otherwise the body
\* of the chunk is read (await response.json())
PostResume ==
    /\ gradeCall.pc = "chunk"
    /\ gradeCall.fetch # "pending"
    /\ IF gradeCall.fetch = "rejected" THEN
           /\ gradeResponse' = Some(ErrorResponse(500, "Failed to grade"))
           /\ gradeCall' = [gradeCall EXCEPT !.pc = "done"]
       ELSE IF gradeCall.fetch = "missing" THEN
           /\ gradeResponse' = Some(ErrorResponse(404, "Chunk not found"))
           /\ gradeCall' = [gradeCall EXCEPT !.pc = "done"]
       ELSE
           /\ gradeCall' = [gradeCall EXCEPT !.pc = "body", !.read = "pending"]
           /\ UNCHANGED gradeResponse
    /\ UNCHANGED <<gradeBody, gradeLog, postOtherVars>>

\* response.json() settles: the chunk is parsed, or the read is rejected
PostBodySettle ==
    /\ gradeCall.pc = "body"
    /\ gradeCall.read = "pending"
    /\ \E outcome \in {"ok", "rejected"} :
          gradeCall' = [gradeCall EXCEPT !.read = outcome]
    /\ UNCHANGED <<gradeBody, gradeResponse, gradeLog, postOtherVars>>

\* POST from the settled read of the chunk to its return
PostFinish ==
    /\ gradeCall.pc = "body"
    /\ gradeCall.read # "pending"
    /\ LET exercise_id == gradeBody.fields["exercise_id"].value[1]
           answer == gradeBody.fields["answer"].value
           lang == IF IsZh(gradeBody.fields) THEN "zh" ELSE "ja"
           chunkIndex == exercise_id \div GradeChunkSize
       IN  IF gradeCall.read = "rejected" THEN
               /\ gradeResponse' = Some(ErrorResponse(500, "Failed to grade"))
               /\ UNCHANGED gradeLog
           ELSE
               LET found == findById(ChunkFiles(getDataPath(lang))[chunkIndex], exercise_id)
               IN  IF found = Null THEN
                       /\ gradeResponse' = Some(ErrorResponse(404, "Sentence not found"))
                       /\ UNCHANGED gradeLog
                   ELSE
                       LET expected == getTargetText(found[1], lang)
                           correct == normalizeForGrading(answer) = normalizeForGrading(expected)
                       IN  /\ gradeResponse' = Some(VerdictResponse(correct, answer, expected))
                           /\ gradeLog' = [gradeLog EXCEPT !.normalizations = @ + 2]
    /\ gradeCall' = [gradeCall EXCEPT !.pc = "done"]
    /\ UNCHANGED <<gradeBody, postOtherVars>>

NextPost == PostBegin \/ PostSettle \/ PostResume \/ PostBodySettle \/ PostFinish

SpecPost == InitPost /\ [][NextPost]_vars

----------------------------------------------------------------------------
(* The exercise page: routes/+page.svelte *)

MaxZoneLen == 2       \* most tiles a click may leave in one zone

\* ['ja', 'zh', 'ko', 'tr']: the order in which GET adds the exercises
LanguageOrder == <<"ja", "zh", "ko", "tr">>

\* A language exercise as GET builds it, the tiles given in their order
ServedExercise(text, tokens, tileTexts) ==
    [text |-> text,
     tokens |-> tokens,
     tiles |-> [index \in 1..Len(tileTexts) |->
                  [id |-> index - 1, text |-> tileTexts[index]]],
     num_correct_tiles |-> Len(tokens)]

\* The responses of api/exercise the page receives: an exercise in Japanese
\* (two tiles) and Turkish (one tile), an exercise in Korean only (one
\* tile), the distractor pools being empty, and an exercise whose sentence
\* has no translation with tokens
PageResponses ==
    {[exercise_id |-> 0, english |-> <<65>>,
      exercises |-> [l \in {"ja", "tr"} |->
          IF l = "ja"
          THEN ServedExercise(<<12354, 12356>>, <<<<12354>>, <<12356>>>>,
                              <<<<12356>>, <<12354>>>>)
          ELSE ServedExercise(<<65>>, <<<<65>>>>, <<<<65>>>>)]],
     [exercise_id |-> 1, english |-> <<66>>,
      exercises |-> [l \in {"ko"} |->
          ServedExercise(<<44032>>, <<<<44032>>>>, <<<<44032>>>>)]],
     [exercise_id |-> 2, english |-> <<67>>,
      exercises |-> NoEntries]}

apiTilesToTileData(apiTiles) ==
    [index \in 1..Len(apiTiles) |->
        [id |-> <<"tile-", apiTiles[index].id>>,
         text |-> apiTiles[index].text,
         originalIndex |-> index - 1]]

\* Array.prototype.filter((t) => t.id !== tile.id)
withoutTile(tiles, tile) ==
    LET other(t) == t.id # tile.id IN SelectSeq(tiles, other)

\* answerTiles.map((t) => t.text)
tileTexts(tiles) == [i \in 1..Len(tiles) |-> tiles[i].text]

\* $derived currentExercise: Null or Some(language exercise)
currentExercise ==
    IF unifiedExercise = Null THEN Null
    ELSE IF language \in DOMAIN unifiedExercise[1].exercises
         THEN Some(unifiedExercise[1].exercises[language])
         ELSE Null

\* Object.keys(unifiedExercise.exercises)[0]: Null or Some(language)
firstLang(exs) ==
    LET present == {i \in 1..Len(LanguageOrder) : LanguageOrder[i] \in DOMAIN exs}
    IN  IF present = {} THEN Null
        ELSE Some(LanguageOrder[CHOOSE i \in present : \A k \in present : i <= k])

\* The template shows the exercise and its controls
PageRendered == ~loading /\ unifiedExercise # Null /\ currentExercise # Null

NoLanguageStates == [l \in Languages |-> Null]

\* After construction and onMount: loadExercise is awaiting its first
\* response; the language store holds its default or the stored language
InitPage ==
    /\ language \in Languages
    /\ userTokens = <<>>
    /\ result = NoResult
    /\ unifiedExercise = Null
    /\ answerTiles = <<>>
    /\ bankTiles = <<>>
    /\ loading = TRUE
    /\ languageStates = NoLanguageStates
    /\ leftStates = NoLanguageStates
    /\ loadFailed = FALSE
    /\ TextIdle
    /\ RequestIdle
    /\ ShuffleIdle /\ PostIdle
    /\ sentence = [translations |-> NoEntries]
    /\ allDistractors = NoEntries
    /\ exercises = NoEntries
    /\ selected = NoEntries
    /\ numTarget = NoEntries
    /\ pc = "page"

pageOtherVars == <<builderVars, textVars, requestVars, shuffleVars, postVars, pc>>

\* loadExercise from the 'Next Exercise' button, up to its await
loadExercise ==
    /\ PageRendered
    /\ result # NoResult
    /\ loading' = TRUE
    /\ result' = NoResult
    /\ userTokens' = <<>>
    /\ answerTiles' = <<>>
    /\ languageStates' = NoLanguageStates
    /\ loadFailed' = FALSE
    /\ UNCHANGED <<unifiedExercise, bankTiles, language, leftStates, pageOtherVars>>

\* fetchUnifiedExercise resolves and loadExercise runs to its end
loadResolves ==
    /\ loading
    /\ \E response \in PageResponses :
          /\ unifiedExercise' = Some(response)
          /\ IF language \in DOMAIN response.exercises THEN
                 /\ bankTiles' = apiTilesToTileData(response.exercises[language].tiles)
                 /\ UNCHANGED language
             ELSE IF firstLang(response.exercises) # Null THEN
                 /\ language' = firstLang(response.exercises)[1]
                 /\ bankTiles' = apiTilesToTileData(response.exercises[language'].tiles)
             ELSE UNCHANGED <<language, bankTiles>>
    /\ loading' = FALSE
    /\ leftStates' = NoLanguageStates
    /\ loadFailed' = FALSE
    /\ UNCHANGED <<answerTiles, languageStates, result, userTokens, pageOtherVars>>

\* fetchUnifiedExercise throws; catch logs, finally clears loading
loadRejects ==
    /\ loading
    /\ loading' = FALSE
    /\ loadFailed' = TRUE
    /\ UNCHANGED <<unifiedExercise, answerTiles, bankTiles, languageStates, leftStates,
                   graderVars, pageOtherVars>>

\* What switchToLanguage(lang) assigns: the page as it is when the guard
\* returns, otherwise the state of the language left saved (by
\* saveCurrentLanguageState), the language set, the result cleared and the
\* tiles restored from the saved state or built afresh
afterSwitch(lang) ==
    IF unifiedExercise = Null \/ lang \notin DOMAIN unifiedExercise[1].exercises THEN
        [languageStates |-> languageStates, language |-> language, result |-> result,
         answerTiles |-> answerTiles, bankTiles |-> bankTiles]
    ELSE
        LET current == [answerTiles |-> answerTiles, bankTiles |-> bankTiles]
            saved == [languageStates EXCEPT ![language] = Some(current)]
            savedState == saved[lang]
        IN  [languageStates |-> saved,
             language |-> lang,
             result |-> NoResult,
             answerTiles |-> IF savedState # Null THEN savedState[1].answerTiles
                             ELSE <<>>,
             bankTiles |-> IF savedState # Null THEN savedState[1].bankTiles
                           ELSE apiTilesToTileData(
                                    unifiedExercise[1].exercises[lang].tiles)]

\* switchToLanguage, called by a language button
switchToLanguage(lang) ==
    /\ PageRendered
    /\ languageStates' = afterSwitch(lang).languageStates
    /\ language' = afterSwitch(lang).language
    /\ result' = afterSwitch(lang).result
    /\ answerTiles' = afterSwitch(lang).answerTiles
    /\ bankTiles' = afterSwitch(lang).bankTiles
    /\ userTokens' = IF result' = NoResult THEN <<>> ELSE userTokens
    /\ leftStates' =
          IF language' = language THEN leftStates
          ELSE [leftStates EXCEPT
                   ![language] = Some([answerTiles |-> answerTiles,
                                       bankTiles |-> bankTiles]),
                   ![lang] = Null]
    /\ UNCHANGED <<unifiedExercise, loading, loadFailed, pageOtherVars>>

\* The item svelte-dnd-action shows in a zone in place of the tile being
\* dragged: the tile's own data with the marker property set
shadowItem(tile) ==
    [id |-> tile.id, text |-> tile.text, originalIndex |-> tile.originalIndex,
     isDndShadowItem |-> TRUE]

\* e.detail.items of a finalize event: tiles of the exercise shown, each at
\* most once, in any order
finalizeItems ==
    IF currentExercise = Null THEN {}
    ELSE LET tiles == apiTilesToTileData(currentExercise[1].tiles)
         IN  {[i \in 1..Len(order) |-> tiles[order[i]]] :
                 order \in {o \in TileOrders(Len(tiles), Len(tiles)) :
                              \A a, b \in 1..Len(o) : a # b => o[a] # o[b]}}

\* e.detail.items of a consider event: as of a finalize event, with the tile
\* being dragged, where the zone shows it, as the shadow item
considerItems ==
    finalizeItems \cup
        UNION {{[i \in 1..Len(items) |->
                    IF i = k THEN shadowItem(items[i]) ELSE items[i]] :
                  k \in 1..Len(items)} : items \in finalizeItems}

\* The four drag handlers: each assigns the items of its event to its zone
handleAnswerConsider(items) ==
    /\ PageRendered
    /\ answerTiles' = items
    /\ UNCHANGED <<unifiedExercise, bankTiles, loading, languageStates, leftStates,
                   loadFailed, graderVars, pageOtherVars>>

handleAnswerFinalize(items) ==
    /\ PageRendered
    /\ answerTiles' = items
    /\ UNCHANGED <<unifiedExercise, bankTiles, loading, languageStates, leftStates,
                   loadFailed, graderVars, pageOtherVars>>

handleBankConsider(items) ==
    /\ PageRendered
    /\ bankTiles' = items
    /\ UNCHANGED <<unifiedExercise, answerTiles, loading, languageStates, leftStates,
                   loadFailed, graderVars, pageOtherVars>>

handleBankFinalize(items) ==
    /\ PageRendered
    /\ bankTiles' = items
    /\ UNCHANGED <<unifiedExercise, answerTiles, loading, languageStates, leftStates,
                   loadFailed, graderVars, pageOtherVars>>

\* selectTile, called by a click on a bank tile
selectTile(tile) ==
    /\ PageRendered
    /\ tile \in Range(bankTiles)
    /\ Len(answerTiles) < MaxZoneLen
    /\ answerTiles' = Append(answerTiles, tile)
    /\ bankTiles' = withoutTile(bankTiles, tile)
    /\ UNCHANGED <<unifiedExercise, loading, languageStates, leftStates, loadFailed,
                   graderVars, pageOtherVars>>

\* deselectTile, called by a click on an answer tile
deselectTile(tile) ==
    /\ PageRendered
    /\ tile \in Range(answerTiles)
    /\ Len(bankTiles) < MaxZoneLen
    /\ bankTiles' = Append(bankTiles, tile)
    /\ answerTiles' = withoutTile(answerTiles, tile)
    /\ UNCHANGED <<unifiedExercise, loading, languageStates, leftStates, loadFailed,
                   graderVars, pageOtherVars>>

\* resetTiles, called by the Reset button (disabled on an empty answer)
resetTiles ==
    /\ PageRendered
    /\ answerTiles # <<>>
    /\ bankTiles' = apiTilesToTileData(currentExercise[1].tiles)
    /\ answerTiles' = <<>>
    /\ languageStates' = [languageStates EXCEPT ![language] = Null]
    /\ UNCHANGED <<unifiedExercise, loading, leftStates, loadFailed, graderVars,
                   pageOtherVars>>

\* submit, called by the Check button (disabled on an empty answer)
submit ==
    /\ PageRendered
    /\ answerTiles # <<>>
    /\ userTokens' = tileTexts(answerTiles)
    /\ result' = gradeUnifiedAnswer(currentExercise[1], userTokens', language)
    /\ UNCHANGED <<unifiedExercise, answerTiles, bankTiles, loading, languageStates,
                   leftStates, loadFailed, language, pageOtherVars>>

\* every tile of the page
PageTiles == Range(answerTiles) \cup Range(bankTiles)

\* The handlers behind the buttons and the tile clicks
NextPageClicks ==
    \/ loadExercise
    \/ loadResolves
    \/ loadRejects
    \/ \E lang \in Languages : switchToLanguage(lang)
    \/ \E tile \in PageTiles : selectTile(tile)
    \/ \E tile \in PageTiles : deselectTile(tile)
    \/ resetTiles
    \/ submit

\* The page used with clicks only
SpecPageClicks == InitPage /\ [][NextPageClicks]_vars

NextPage ==
    \/ loadExercise
    \/ loadResolves
    \/ loadRejects
    \/ \E lang \in Languages : switchToLanguage(lang)
    \/ \E tile \in PageTiles : selectTile(tile)
    \/ \E tile \in PageTiles : deselectTile(tile)
    \/ resetTiles
    \/ submit
    \/ \E items \in considerItems : handleAnswerConsider(items)
    \/ \E items \in finalizeItems : handleAnswerFinalize(items)
    \/ \E items \in considerItems : handleBankConsider(items)
    \/ \E items \in finalizeItems : handleBankFinalize(items)

SpecPage == InitPage /\ [][NextPage]_vars

----------------------------------------------------------------------------
(* The sentence suitability check on its own *)

\* /"\s+"/.test(s) as a scan from position i; state 0: no match begun,
\* 1: a " was read last, 2: a " then one or more whitespace were read last;
\* two adjacent " match.
RECURSIVE scanNoSpaceNeeded(_, _, _)
scanNoSpaceNeeded(s, i, state) ==
    IF i > Len(s) THEN FALSE
    ELSE IF s[i] = 34
         THEN IF state \in {1, 2} THEN TRUE ELSE scanNoSpaceNeeded(s, i + 1, 1)
    ELSE IF s[i] \in WhiteSpaceChars /\ state \in {1, 2}
         THEN scanNoSpaceNeeded(s, i + 1, 2)
    ELSE scanNoSpaceNeeded(s, i + 1, 0)

\* the pattern with an optional run of whitespace
MULTI_DIALOGUE_PATTERN_NoSpaceNeeded(s) == scanNoSpaceNeeded(s, 1, 0)

\* /"\s+"/.test(s) as a scan from position i; state 0: no match begun,
\* 1: a " was read last, 2: a " then one or more whitespace were read last
RECURSIVE scanDialogue(_, _, _)
scanDialogue(s, i, state) ==
    IF i > Len(s) THEN FALSE
    ELSE IF s[i] = 34
         THEN IF state = 2 THEN TRUE ELSE scanDialogue(s, i + 1, 1)
    ELSE IF s[i] \in WhiteSpaceChars /\ state \in {1, 2}
         THEN scanDialogue(s, i + 1, 2)
    ELSE scanDialogue(s, i + 1, 0)

\* MULTI_DIALOGUE_PATTERN.test(s)
MULTI_DIALOGUE_PATTERN(s) == scanDialogue(s, 1, 0)

isSuitableSentence(candidate) ==
    IF MULTI_DIALOGUE_PATTERN(candidate.en) THEN FALSE ELSE TRUE

MaxEnLen == 4         \* longest English source

\* ", curly left double quote, SPACE, LF, ideographic space, A
EnglishAlphabet == {34, 8220, 32, 10, 12288, 65}

\* Target-language texts: one with the pattern, one without
TargetTexts == {<<34, 32, 34>>, <<12354>>}

InitSuitable ==
    /\ strA \in SeqsUpTo(EnglishAlphabet, MaxEnLen)
    /\ strB \in TargetTexts
    /\ normA = <<>> /\ normB = <<>> /\ srvA = <<>> /\ srvB = <<>>
    /\ validA = FALSE
    /\ suitableA = FALSE
    /\ RequestIdle
    /\ ShuffleIdle /\ PageIdle /\ PostIdle
    /\ sentence = [translations |-> NoEntries]
    /\ allDistractors = NoEntries
    /\ exercises = NoEntries
    /\ selected = NoEntries
    /\ numTarget = NoEntries
    /\ GraderIdle
    /\ pc = "english"

\* isSuitableSentence applied to a sentence of English source strA and
\* Japanese text strB
CheckSuitability ==
    /\ pc = "english"
    /\ suitableA' =
          isSuitableSentence(
              [id |-> 0, en |-> strA,
               translations |-> [l \in {"ja"} |-> [text |-> strB, tokens |-> <<strB>>]]])
    /\ pc' = "checked"
    /\ UNCHANGED <<builderVars, graderVars, requestVars, shuffleVars, pageVars, postVars, strA, strB, normA, normB,
                   srvA, srvB, validA>>

NextSuitable == CheckSuitability

SpecSuitable == InitSuitable /\ [][NextSuitable]_vars

----------------------------------------------------------------------------
(* The request: caches, sentence selection, bounded retry *)

MAX_ATTEMPTS == 10

MaxTotal == 3         \* largest manifest.total
MaxChunkSize == 2     \* largest manifest.chunk_size
MaxRequests == 2      \* most requests of a process that overlap

FailureResponse == [status |-> 500, error |-> "Failed to generate exercise"]
NoSuitableResponse == [status |-> 404, error |-> "Could not find suitable sentence"]

\* the cache test, never finding a cached value
cacheMiss_Always(cache) == TRUE

\* !cachedManifest, !cachedDistractors
cacheMiss(cache) == cache = Null

\* cachedManifest after the continuation of getManifest, when a failed fetch
\* assigns the error
getManifestAssign_KeepsError(cache, status, body) ==
    IF status = "ok" THEN Some(body) ELSE Some([error |-> "Failed to fetch"])

\* cachedManifest after the continuation of getManifest, when a failed fetch
\* assigns null
getManifestAssign_ClearsOnFailure(cache, status, body) ==
    IF status = "ok" THEN Some(body) ELSE Null

\* cachedManifest (cachedDistractors) after the continuation of getManifest
\* (getDistractors), the fetch settled with status, body the parsed file:
\* fetchJSON throws before the assignment when the response is not ok
getManifestAssign(cache, status, body) ==
    IF status = "ok" THEN Some(body) ELSE cache

\* Math.floor(sentenceIndex / manifest.chunk_size), rounded up instead
chunkIndexOf_Ceiling(sentenceIndex, manifest) ==
    (sentenceIndex + manifest.chunk_size - 1) \div manifest.chunk_size

chunkIndexOf(sentenceIndex, manifest) == sentenceIndex \div manifest.chunk_size

indexInChunkOf(sentenceIndex, manifest) == sentenceIndex % manifest.chunk_size

\* The values of Math.floor(Math.random() * manifest.total)
SentenceIndices(manifest) ==
    IF manifest.total > 0 THEN 0..(manifest.total - 1) ELSE {0}

\* the loop condition, letting one more iteration run
loopContinues_OneMore(attempt) == attempt <= MAX_ATTEMPTS

\* attempt < MAX_ATTEMPTS
loopContinues(attempt) == attempt < MAX_ATTEMPTS

\* chunk[indexInChunk] of the chunk file chunkIndex: Null stands for undefined
candidateAt(chunkIndex, indexInChunk) ==
    LET chunk == corpus.chunks[chunkIndex + 1]
    IN  IF indexInChunk + 1 <= Len(chunk) THEN Some(chunk[indexInChunk + 1]) ELSE Null

\* The bodies GET can return for a selected sentence and the pools: one per
\* outcome of the shuffles of buildExerciseForLanguage
SuccessResponses(selectedSentence, pools) ==
    LET built == {lang \in DOMAIN selectedSentence.translations :
                     Len(selectedSentence.translations[lang].tokens) > 0}
        poolOf(lang) == IF lang \in DOMAIN pools THEN pools[lang] ELSE <<>>
        translation(lang) == selectedSentence.translations[lang]
        nAvailable(lang) == Len(availableDistractors(translation(lang), poolOf(lang)))
        nAll(lang) ==
            LET nCorrect == Len(correctTokens(translation(lang)))
            IN  nCorrect + Min(numDistractors(nCorrect), nAvailable(lang))
        draws(lang) == ChoiceSeqs(nAvailable(lang)) \X ChoiceSeqs(nAll(lang))
        allDraws == {c \in [built -> UNION {draws(lang) : lang \in built}] :
                        \A lang \in built : c[lang] \in draws(lang)}
    IN  {[status |-> 200,
          exercise_id |-> selectedSentence.id,
          english |-> selectedSentence.en,
          exercises |-> [lang \in built |->
              buildExerciseForLanguage(translation(lang), poolOf(lang),
                                       c[lang][1], c[lang][2])]] : c \in allDraws}

\* English sources: one quoted utterance; two quoted utterances
PlainEnglish == <<34, 65, 34>>
DialogueEnglish == <<34, 65, 34, 32, 34, 65, 34>>

\* The sentence of global index i
SentenceOf(i, dialogue) ==
    [id |-> i,
     en |-> IF i \in dialogue THEN DialogueEnglish ELSE PlainEnglish,
     translations |-> [l \in {"ja"} |-> TranslationOf("ja", <<<<12354>>>>)]]

\* The files of a corpus whose manifest announces total sentences in chunks of
\* size, of which only the first stored exist; the sentences of the indices in
\* dialogue have a multi-dialogue English source
CorpusOf(total, size, stored, dialogue) ==
    [manifest |-> [total |-> total, chunk_size |-> size],
     chunks |-> [c \in 1..((stored + size - 1) \div size) |->
                    [k \in 1..Min(size, stored - (c - 1) * size) |->
                        SentenceOf((c - 1) * size + k - 1, dialogue)]],
     distractors |-> [l \in Languages |-> SmallPool]]

Corpora ==
    UNION {{CorpusOf(total, size, stored, dialogue) :
               size \in 1..MaxChunkSize, stored \in 0..total,
               dialogue \in {{}, {0}, 0..(total - 1)}} : total \in 1..MaxTotal}

MaxLargeTotal == 12   \* largest manifest.total of a complete corpus
MaxLargeChunkSize == 5 \* largest manifest.chunk_size of a complete corpus

\* Complete corpora of suitable sentences
LargeCorpora ==
    UNION {{CorpusOf(total, size, total, {}) : size \in 1..MaxLargeChunkSize} :
              total \in 1..MaxLargeTotal}

\* One complete sentence
TinyCorpus == CorpusOf(1, 1, 1, {})

\* A process: its files, the number of requests it serves, and the caches
\* earlier requests loaded (none, the manifest, both).  Requests overlap on
\* TinyCorpus.
Processes ==
    {[files |-> c, requests |-> 1, warm |-> w] :
        c \in Corpora, w \in {"none", "manifest", "both"}}
        \cup {[files |-> c, requests |-> 1, warm |-> "both"] : c \in LargeCorpora}
        \cup {[files |-> TinyCorpus, requests |-> MaxRequests, warm |-> "none"]}

NoLog == [manifest |-> 0, distractors |-> 0, chunks |-> 0]

\* A request that has not reached GET yet
IdleRequest ==
    [pc |-> "idle", fetch |-> "none", manifest |-> Null, allDistractors |-> Null,
     attempt |-> 0, sentenceIndex |-> 0, chunkIndex |-> 0, indexInChunk |-> 0,
     response |-> Null, log |-> NoLog]

InitRequest ==
    /\ \E p \in Processes :
          /\ corpus = p.files
          /\ req = [r \in 1..p.requests |-> IdleRequest]
          /\ cachedManifest =
                IF p.warm # "none" THEN Some(p.files.manifest) ELSE Null
          /\ cachedDistractors =
                IF p.warm = "both" THEN Some(p.files.distractors) ELSE Null
          /\ hist = [manifestLoads |-> IF p.warm # "none" THEN 1 ELSE 0,
                     distractorLoads |-> IF p.warm = "both" THEN 1 ELSE 0,
                     overlap |-> FALSE]
    /\ sentence = [translations |-> NoEntries]
    /\ allDistractors = NoEntries
    /\ exercises = NoEntries
    /\ selected = NoEntries
    /\ numTarget = NoEntries
    /\ GraderIdle
    /\ TextIdle
    /\ ShuffleIdle /\ PageIdle /\ PostIdle
    /\ pc = "serving"

\* what a step of a request leaves alone
otherVars == <<builderVars, graderVars, textVars, shuffleVars, pageVars, postVars, pc>>

Active(r) == req[r].pc \notin {"idle", "done"}

\* return json(body): the request is over, its locals are gone
Respond(r, body) ==
    [IdleRequest EXCEPT !.pc = "done", !.response = Some(body), !.log = req[r].log]

\* GET up to its first await: getManifest tests the cache and either returns
\* it or calls fetch
Arrive(r) ==
    /\ pc = "serving"
    /\ req[r].pc = "idle"
    /\ req' = [req EXCEPT ![r] =
                  IF cacheMiss(cachedManifest)
                  THEN [@ EXCEPT !.pc = "getManifest", !.fetch = "pending",
                                 !.log.manifest = @ + 1]
                  ELSE [@ EXCEPT !.pc = "manifest", !.manifest = cachedManifest]]
    /\ hist' = [hist EXCEPT !.overlap = @ \/ \E q \in DOMAIN req : q # r /\ Active(q)]
    /\ UNCHANGED <<cachedManifest, cachedDistractors, corpus, otherVars>>

\* The file a pending fetch of request r asks for exists
FileExists(r) ==
    req[r].pc = "chunk" => req[r].chunkIndex + 1 <= Len(corpus.chunks)

\* The platform settles the fetch of request r: response.ok, or a response
\* that is not ok (the only outcome for a file that does not exist)
Settle(r) ==
    /\ pc = "serving"
    /\ req[r].fetch = "pending"
    /\ \E status \in {"ok", "failed"} :
          /\ status = "ok" => FileExists(r)
          /\ req' = [req EXCEPT ![r].fetch = status]
    /\ UNCHANGED <<cachedManifest, cachedDistractors, corpus, hist, otherVars>>

\* getManifest after its await, up to GET's next await
ResumeGetManifest(r) ==
    /\ pc = "serving"
    /\ req[r].pc = "getManifest"
    /\ req[r].fetch \in {"ok", "failed"}
    /\ cachedManifest' = getManifestAssign(cachedManifest, req[r].fetch, corpus.manifest)
    /\ IF req[r].fetch = "ok"
       THEN /\ req' = [req EXCEPT ![r].pc = "manifest", ![r].fetch = "none",
                                  ![r].manifest = cachedManifest']
            /\ hist' = [hist EXCEPT !.manifestLoads = @ + 1]
       ELSE /\ req' = [req EXCEPT ![r] = Respond(r, FailureResponse)]
            /\ UNCHANGED hist
    /\ UNCHANGED <<cachedDistractors, corpus, otherVars>>

\* GET resumed with the manifest: getDistractors tests the cache and either
\* returns it or calls fetch
CallGetDistractors(r) ==
    /\ pc = "serving"
    /\ req[r].pc = "manifest"
    /\ req' = [req EXCEPT ![r] =
                  IF cacheMiss(cachedDistractors)
                  THEN [@ EXCEPT !.pc = "getDistractors", !.fetch = "pending",
                                 !.log.distractors = @ + 1]
                  ELSE [@ EXCEPT !.pc = "distractors", !.allDistractors = cachedDistractors]]
    /\ UNCHANGED <<cachedManifest, cachedDistractors, corpus, hist, otherVars>>

\* getDistractors after its await, up to GET's next await
ResumeGetDistractors(r) ==
    /\ pc = "serving"
    /\ req[r].pc = "getDistractors"
    /\ req[r].fetch \in {"ok", "failed"}
    /\ cachedDistractors' =
          getManifestAssign(cachedDistractors, req[r].fetch, corpus.distractors)
    /\ IF req[r].fetch = "ok"
       THEN /\ req' = [req EXCEPT ![r].pc = "distractors", ![r].fetch = "none",
                                  ![r].allDistractors = cachedDistractors']
            /\ hist' = [hist EXCEPT !.distractorLoads = @ + 1]
       ELSE /\ req' = [req EXCEPT ![r] = Respond(r, FailureResponse)]
            /\ UNCHANGED hist
    /\ UNCHANGED <<cachedManifest, corpus, otherVars>>

\* The states of request r at the top of the loop with attempt attempts made:
\* a sentence index drawn and its chunk asked for, or the loop left without a
\* sentence
Iterate(r, attempt) ==
    IF loopContinues(attempt)
    THEN {[req[r] EXCEPT !.pc = "chunk", !.fetch = "pending", !.attempt = attempt,
                         !.sentenceIndex = sentenceIndex,
                         !.chunkIndex = chunkIndexOf(sentenceIndex, req[r].manifest[1]),
                         !.indexInChunk = indexInChunkOf(sentenceIndex, req[r].manifest[1]),
                         !.log.chunks = @ + 1] :
              sentenceIndex \in SentenceIndices(req[r].manifest[1])}
    ELSE {Respond(r, NoSuitableResponse)}

\* GET resumed with the pools: the first iteration of the loop up to its await
EnterLoop(r) ==
    /\ pc = "serving"
    /\ req[r].pc = "distractors"
    /\ \E next \in Iterate(r, 0) : req' = [req EXCEPT ![r] = next]
    /\ UNCHANGED <<cachedManifest, cachedDistractors, corpus, hist, otherVars>>

\* GET after the await of a chunk, a failed fetch counting as one more
\* attempt without a sentence
ResumeChunk_RetriesFailedFetch(r) ==
    /\ pc = "serving"
    /\ req[r].pc = "chunk"
    /\ req[r].fetch \in {"ok", "failed"}
    /\ LET candidate ==
              IF req[r].fetch = "failed" THEN Null
              ELSE candidateAt(req[r].chunkIndex, req[r].indexInChunk)
       IN  IF candidate # Null /\ isSuitableSentence(candidate[1])
           THEN \E body \in SuccessResponses(candidate[1], req[r].allDistractors[1]) :
                   req' = [req EXCEPT ![r] = Respond(r, body)]
           ELSE \E next \in Iterate(r, req[r].attempt + 1) :
                   req' = [req EXCEPT ![r] = next]
    /\ UNCHANGED <<cachedManifest, cachedDistractors, corpus, hist, otherVars>>

\* GET after the await of a chunk: the rest of the iteration, then either the
\* next iteration up to its await, or the rest of GET
ResumeChunk(r) ==
    /\ pc = "serving"
    /\ req[r].pc = "chunk"
    /\ req[r].fetch \in {"ok", "failed"}
    /\ IF req[r].fetch = "failed"
       THEN req' = [req EXCEPT ![r] = Respond(r, FailureResponse)]
       ELSE LET candidate == candidateAt(req[r].chunkIndex, req[r].indexInChunk)
            IN  IF candidate # Null /\ isSuitableSentence(candidate[1])
                THEN \E body \in SuccessResponses(candidate[1], req[r].allDistractors[1]) :
                        req' = [req EXCEPT ![r] = Respond(r, body)]
                ELSE \E next \in Iterate(r, req[r].attempt + 1) :
                        req' = [req EXCEPT ![r] = next]
    /\ UNCHANGED <<cachedManifest, cachedDistractors, corpus, hist, otherVars>>

NextRequest ==
    \/ \E r \in DOMAIN req : Arrive(r)
    \/ \E r \in DOMAIN req : Settle(r)
    \/ \E r \in DOMAIN req : ResumeGetManifest(r)
    \/ \E r \in DOMAIN req : CallGetDistractors(r)
    \/ \E r \in DOMAIN req : ResumeGetDistractors(r)
    \/ \E r \in DOMAIN req : EnterLoop(r)
    \/ \E r \in DOMAIN req : ResumeChunk(r)

SpecRequest == InitRequest /\ [][NextRequest]_vars

----------------------------------------------------------------------------
(* Properties *)

Built == pc \in {"served", "graded"}

ConcatenativeLanguages == {"ja", "zh"}
TokenSequenceLanguages == {"ko", "tr"}

\* The pool entries eligible as distractors for lang, by position
EligiblePositions(lang) ==
    {i \in 1..Len(PoolOf(lang)) :
        /\ PoolOf(lang)[i] \notin Range(exercises[lang].tokens)
        /\ isValidToken(PoolOf(lang)[i])}

\* C1: in every built exercise, for every outcome of the shuffles, no token of
\* the exercise's correct-token list is among the selected distractors.
C1_NoCorrectTokenAmongDistractors ==
    Built => \A l \in DOMAIN exercises :
                Range(selected[l]) \cap Range(exercises[l].tokens) = {}

\* C1 witness: an exercise was built from a pool that holds one of its correct
\* tokens and more eligible tokens than were selected.
C1_Witness ==
    /\ pc = "served"
    /\ \E l \in DOMAIN exercises :
          /\ Range(PoolOf(l)) \cap Range(exercises[l].tokens) # {}
          /\ Len(selected[l]) > 0
          /\ Len(selected[l]) < Cardinality(EligiblePositions(l))

\* C2 (as claimed): every language exercise GET returns has a non-empty list
\* of valid correct tokens.
C2_ReturnedExercisesHaveTokens ==
    Built => \A l \in DOMAIN exercises : Len(exercises[l].tokens) > 0

\* C3 (as claimed): for ja and zh, when the translation's tokens reassemble to
\* its text once the builder's punctuation and whitespace are stripped, the
\* exercise's own tokens submitted in order are graded correct.
Reassembles(translation) ==
    RemoveChars(join(translation.tokens, <<>>), PUNCTUATION_CHARS \cup WhiteSpaceChars)
        = RemoveChars(translation.text, PUNCTUATION_CHARS \cup WhiteSpaceChars)

C3_GroundTruthIsGradedCorrect ==
    (/\ pc = "graded"
     /\ language \in ConcatenativeLanguages
     /\ Reassembles(sentence.translations[language])
     /\ userTokens = exercises[language].tokens)
        => result.correct = TRUE

\* C4: in token-sequence mode (ko, tr) the verdict is correct exactly when the
\* submitted list is as long as the expected list and the normalized tokens
\* agree at every position; a shorter or longer submission is never correct.
C4_TokenSequenceVerdict ==
    (pc = "graded" /\ language \in TokenSequenceLanguages) =>
        LET expected == exercises[language].tokens
        IN  /\ result.correct =
                  (/\ Len(userTokens) = Len(expected)
                   /\ \A i \in 1..Len(expected) :
                         i <= Len(userTokens)
                             /\ normalize(userTokens[i]) = normalize(expected[i]))
            /\ Len(userTokens) # Len(expected) => result.correct = FALSE

\* C4 witness: a token-sequence submission that lacks the last expected token
\* and agrees with the expected tokens before it was graded.
C4_Witness ==
    /\ pc = "graded"
    /\ language \in TokenSequenceLanguages
    /\ Len(userTokens) + 1 = Len(exercises[language].tokens)
    /\ \A i \in 1..Len(userTokens) :
          normalize(userTokens[i]) = normalize(exercises[language].tokens[i])
    /\ result.correct = FALSE

\* C5: in concatenative mode (ja, zh) the verdict is correct exactly when the
\* normalized concatenation of the submitted tokens equals the normalized
\* expected text.
C5_ConcatenativeVerdict ==
    (pc = "graded" /\ language \in ConcatenativeLanguages) =>
        result.correct =
            (normalize(join(userTokens, <<>>)) = normalize(exercises[language].text))

\* C5 witness: a concatenative submission graded correct although its
\* concatenation is not the text itself (the text carries punctuation).
C5_Witness ==
    /\ pc = "graded"
    /\ language \in ConcatenativeLanguages
    /\ result.correct = TRUE
    /\ join(userTokens, <<>>) # exercises[language].text

\* C6 (as claimed): the grader's normalization is NFKC folding, then removal
\* of whitespace, then removal of the punctuation set with the curly quotes;
\* two strings have the same normalized form exactly when that procedure
\* gives the same string for both, so width variants are equivalent.
ClaimedNormalization(s) ==
    RemoveChars(RemoveChars(nfkc(s), WhiteSpaceChars),
                NormalizePunctuation \cup {8220, 8221, 8216, 8217})

C6_NormalizeFoldsWidthVariants ==
    pc = "normalized" =>
        /\ (normA = normB) = (ClaimedNormalization(strA) = ClaimedNormalization(strB))
        /\ nfkc(strA) = nfkc(strB) => normA = normB

\* C7: every tile text of a built exercise passes the validity filter: it is
\* not blank, not purely punctuation, and neither starts nor ends with a
\* quotation mark.
C7_EveryTileIsValid ==
    Built => \A l \in DOMAIN exercises :
                \A i \in 1..Len(exercises[l].tiles) :
                    LET text == exercises[l].tiles[i].text
                    IN  /\ isValidToken(text)
                        /\ \E k \in 1..Len(text) : text[k] \notin WhiteSpaceChars
                        /\ \E k \in 1..Len(text) : text[k] \notin PUNCTUATION_CHARS
                        /\ text[1] \notin QuotationMarks
                        /\ text[Len(text)] \notin QuotationMarks

\* C7 witness: an exercise with distractor tiles was built from a translation
\* and a pool that both hold an invalid token.
C7_Witness ==
    /\ pc = "served"
    /\ \E l \in DOMAIN exercises :
          /\ \E i \in 1..Len(PoolOf(l)) : ~isValidToken(PoolOf(l)[i])
          /\ \E i \in 1..Len(sentence.translations[l].tokens) :
                ~isValidToken(sentence.translations[l].tokens[i])
          /\ Len(selected[l]) > 0
          /\ Len(exercises[l].tokens) > 0

\* C8: isValidToken is false exactly for a token that is empty or all
\* whitespace, or all punctuation of the fixed set, or that begins or ends
\* with a straight or curly quotation mark.
C8_ValidityFilter ==
    pc = "validated" =>
        (validA = FALSE) =
            (\/ \A k \in 1..Len(strA) : strA[k] \in WhiteSpaceChars
             \/ \A k \in 1..Len(strA) : strA[k] \in PUNCTUATION_CHARS
             \/ (Len(strA) > 0 /\ strA[1] \in {34, 39, 8220, 8221, 8216, 8217})
             \/ (Len(strA) > 0 /\ strA[Len(strA)] \in {34, 39, 8220, 8221, 8216, 8217}))

\* C8 witness: a token of a letter followed by a curly quote was rejected.
C8_Witness ==
    pc = "validated" /\ strA = <<12354, 8220>> /\ validA = FALSE

Clamp(x, lo, hi) == IF x < lo THEN lo ELSE IF x > hi THEN hi ELSE x

\* C9 (as claimed): the distractor target is clamp(round(0.5 * n), 3, 8),
\* Math.round rounding halves up.
C9_TargetIsRoundedHalf ==
    Built => \A l \in DOMAIN exercises :
                LET n == Len(exercises[l].tokens)
                IN  n >= 1 => numTarget[l] = Clamp((n + 1) \div 2, 3, 8)

\* C9 (amended): the distractor target is clamp(floor(0.5 * n), 3, 8).
C9_TargetIsFlooredHalf ==
    Built => \A l \in DOMAIN exercises :
                LET n == Len(exercises[l].tokens)
                IN  n >= 1 =>
                      \E q \in 0..n :
                          /\ 2 * q <= n /\ n < 2 * q + 2
                          /\ numTarget[l] = Clamp(q, 3, 8)

\* C9 witness: an exercise of seven correct tokens was built with target 3.
C9_Witness ==
    /\ pc = "served"
    /\ \E l \in DOMAIN exercises :
          Len(exercises[l].tokens) = 7 /\ numTarget[l] = 3

\* C10: the number of distractors of a built exercise is
\* min(min(max(3, floor(n / 2)), 8), e), n the number of correct tokens and e
\* the number of eligible pool tokens; it never exceeds 8, and with fewer
\* eligible tokens than the target all of them are used.
C10_DistractorCount ==
    Built => \A l \in DOMAIN exercises :
                LET n == Len(exercises[l].tokens)
                    e == Cardinality(EligiblePositions(l))
                    target == Min(Max(3, n \div 2), 8)
                    count == Len(exercises[l].tiles) - exercises[l].num_correct_tiles
                IN  /\ count = Min(target, e)
                    /\ count = Len(selected[l])
                    /\ count <= 8
                    /\ e < target =>
                          {PoolOf(l)[i] : i \in EligiblePositions(l)} = Range(selected[l])

\* C10 witness: an exercise of at least eighteen correct tokens was built from
\* a pool with more than eight eligible tokens, and holds eight distractors.
C10_Witness ==
    /\ pc = "served"
    /\ \E l \in DOMAIN exercises :
          /\ Len(exercises[l].tokens) >= 18
          /\ Cardinality(EligiblePositions(l)) > 8
          /\ Len(selected[l]) = 8

\* The number of positions of the token list s that hold the token x
Occurrences(s, x) == Cardinality({i \in 1..Len(s) : s[i] = x})

TileTexts(lang) ==
    [i \in 1..Len(exercises[lang].tiles) |-> exercises[lang].tiles[i].text]

\* C11: in every built exercise the tile texts are, as a multiset, the
\* filtered correct tokens together with the selected distractors, and the
\* tile at (0-based) position i of the shuffled order has id i, so the ids are
\* the distinct integers 0..n-1.
C11_TilesArePermutationWithSequentialIds ==
    Built => \A l \in DOMAIN exercises :
                LET tiles == exercises[l].tiles
                    combined == exercises[l].tokens \o selected[l]
                IN  /\ Len(tiles) = Len(combined)
                    /\ \A x \in Range(TileTexts(l)) \cup Range(combined) :
                          Occurrences(TileTexts(l), x) = Occurrences(combined, x)
                    /\ \A i \in 1..Len(tiles) : tiles[i].id = i - 1
                    /\ {tiles[i].id : i \in 1..Len(tiles)} = 0..(Len(tiles) - 1)
                    /\ \A i, k \in 1..Len(tiles) : i # k => tiles[i].id # tiles[k].id

\* C11 witness: an exercise whose correct tokens repeat a token was built with
\* distractors, and its tiles are in another order than correct tokens then
\* distractors.
C11_Witness ==
    /\ pc = "served"
    /\ \E l \in DOMAIN exercises :
          /\ Len(exercises[l].tokens) = 2
          /\ exercises[l].tokens[1] = exercises[l].tokens[2]
          /\ Len(selected[l]) > 1
          /\ TileTexts(l) # exercises[l].tokens \o selected[l]
          /\ TileTexts(l)[1] \in Range(selected[l])

\* The positions of the valid tokens of a translation's token list
ValidPositions(translation) ==
    {i \in 1..Len(translation.tokens) : isValidToken(translation.tokens[i])}

\* C12: the tokens of a built exercise are the valid tokens of the
\* translation's token list in their original relative order (the k-th token
\* is the token at the k-th valid position), text is the translation's text,
\* and num_correct_tiles is the length of tokens.
C12_TokensAreFilteredInOrder ==
    Built => \A l \in DOMAIN exercises :
                LET translation == sentence.translations[l]
                    valid == ValidPositions(translation)
                    tokens == exercises[l].tokens
                IN  /\ Len(tokens) = Cardinality(valid)
                    /\ \A i \in valid :
                          tokens[Cardinality({j \in valid : j <= i})]
                              = translation.tokens[i]
                    /\ exercises[l].text = translation.text
                    /\ exercises[l].num_correct_tiles = Len(tokens)

\* C12 witness: an exercise was built from a translation of two different
\* tokens, the first invalid and the second valid, whose text holds
\* punctuation.
C12_Witness ==
    /\ pc = "served"
    /\ \E l \in DOMAIN exercises :
          LET translation == sentence.translations[l]
          IN  /\ Len(translation.tokens) = 2
              /\ ValidPositions(translation) = {2}
              /\ exercises[l].tokens = <<translation.tokens[2]>>
              /\ exercises[l].num_correct_tiles = 1
              /\ translation.text # join(exercises[l].tokens, <<>>)

\* C20: a sentence is rejected exactly when its English source holds a " at
\* some position, a " at a later position, and between the two one or more
\* characters, all whitespace; the target-language text has no influence.
C20_SuitabilityIsDialoguePattern ==
    pc = "checked" =>
        (suitableA = FALSE) =
            (\E i, k \in 1..Len(strA) :
                /\ i + 1 < k
                /\ strA[i] = 34 /\ strA[k] = 34
                /\ \A m \in (i + 1)..(k - 1) : strA[m] \in WhiteSpaceChars)

\* C20 witness: a sentence whose English source holds " " only with a curly
\* quote, and whose Japanese text holds the pattern, was accepted.
C20_Witness ==
    /\ pc = "checked"
    /\ strA = <<8220, 32, 34>>
    /\ strB = <<34, 32, 34>>
    /\ suitableA = TRUE

\* Request r resumes in this step with the chunk it asked for
ChunkArrives(r) ==
    req[r].pc = "chunk" /\ req[r].fetch = "ok" /\ req'[r] # req[r]

\* The record the chunk request r asked for holds at the index r computed
SampledCandidate(r) == candidateAt(req[r].chunkIndex, req[r].indexInChunk)

SampledIsSuitable(r) ==
    /\ SampledCandidate(r) # Null
    /\ ~MULTI_DIALOGUE_PATTERN(SampledCandidate(r)[1].en)

\* C13: a request fetches at most 10 chunks; when a fetched chunk holds a
\* suitable candidate the request ends at once with that sentence's exercise;
\* when it does not, the request samples again unless it has sampled 10
\* times, and then it ends with the 404 'Could not find suitable sentence'
\* response, which holds no exercise; that response is given only after 10
\* samples.
C13_BoundedSampling ==
    /\ [](\A r \in DOMAIN req :
            /\ req[r].log.chunks <= 10
            /\ (req[r].response # Null /\ req[r].response[1].status = 404) =>
                  /\ req[r].log.chunks = 10
                  /\ req[r].response[1] =
                        [status |-> 404, error |-> "Could not find suitable sentence"])
    /\ [][\A r \in DOMAIN req :
            ChunkArrives(r) =>
                IF SampledIsSuitable(r)
                THEN /\ req'[r].pc = "done"
                     /\ req'[r].response[1].status = 200
                     /\ req'[r].response[1].exercise_id = SampledCandidate(r)[1].id
                     /\ req'[r].log.chunks = req[r].log.chunks
                ELSE IF req[r].log.chunks < 10
                THEN /\ req'[r].pc = "chunk"
                     /\ req'[r].fetch = "pending"
                     /\ req'[r].response = Null
                     /\ req'[r].log.chunks = req[r].log.chunks + 1
                ELSE /\ req'[r].pc = "done"
                     /\ req'[r].response[1].status = 404
                     /\ req'[r].log.chunks = 10]_vars

\* C13 witness: a request on files that hold a suitable sentence ended with
\* the 'Could not find suitable sentence' response after ten chunk fetches.
C13_Witness ==
    \E r \in DOMAIN req :
        /\ req[r].pc = "done"
        /\ req[r].response = Some(NoSuitableResponse)
        /\ req[r].log.chunks = 10
        /\ \E c \in 1..Len(corpus.chunks) : \E k \in 1..Len(corpus.chunks[c]) :
              isSuitableSentence(corpus.chunks[c][k])

\* C14 (as claimed): when the fetched chunk holds no record at the computed
\* index, the request ends in that step with a 'Sentence not found' failure
\* and fetches no other chunk.
C14_MissingRecordIsSurfaced ==
    [][\A r \in DOMAIN req :
          (ChunkArrives(r) /\ SampledCandidate(r) = Null) =>
              /\ req'[r].pc = "done"
              /\ req'[r].response[1].status # 200
              /\ req'[r].response[1].error = "Sentence not found"
              /\ req'[r].log.chunks = req[r].log.chunks]_vars

\* Request r resumes in this step with a fetch that failed, at position where
FailedFetchResumes(r, where) ==
    req[r].pc = where /\ req[r].fetch = "failed" /\ req'[r] # req[r]

\* C15: when a chunk fetch of a request fails, the request ends in that step
\* with the 500 failure response, which holds no exercise, and it fetches no
\* further chunk: the count of its chunk fetches stays, and a request that
\* has responded takes no further step.
C15_ChunkFetchFailureEndsRequest ==
    [][\A r \in DOMAIN req :
          /\ FailedFetchResumes(r, "chunk") =>
                /\ req'[r].pc = "done"
                /\ req'[r].response =
                      Some([status |-> 500, error |-> "Failed to generate exercise"])
                /\ req'[r].log = req[r].log
          /\ req[r].pc = "done" => req'[r] = req[r]]_vars

\* C15 witness: a request ended with the failure response on its second
\* chunk fetch.
C15_Witness ==
    \E r \in DOMAIN req :
        /\ req[r].pc = "done"
        /\ req[r].response = Some(FailureResponse)
        /\ req[r].log.chunks = 2

\* C16: when the manifest (distractor pool) fetch of a request fails, the
\* request ends in that step with the 500 failure response, having fetched no
\* chunk and fetched the manifest (pool) once, and the step leaves
\* cachedManifest (cachedDistractors) as it was, unset if it was unset.
C16_DataUnavailableIsHardFailure ==
    [][\A r \in DOMAIN req :
          /\ FailedFetchResumes(r, "getManifest") =>
                /\ req'[r].pc = "done"
                /\ req'[r].response =
                      Some([status |-> 500, error |-> "Failed to generate exercise"])
                /\ req'[r].log = [manifest |-> 1, distractors |-> 0, chunks |-> 0]
                /\ cachedManifest' = cachedManifest
                /\ cachedManifest = Null => cachedManifest' = Null
          /\ FailedFetchResumes(r, "getDistractors") =>
                /\ req'[r].pc = "done"
                /\ req'[r].response =
                      Some([status |-> 500, error |-> "Failed to generate exercise"])
                /\ req'[r].log.distractors = 1
                /\ req'[r].log.chunks = 0
                /\ cachedDistractors' = cachedDistractors
                /\ cachedDistractors = Null => cachedDistractors' = Null
          /\ req[r].pc = "done" => req'[r] = req[r]]_vars

\* C16 witness: of two requests that did not overlap, one ended with the
\* failure response on its manifest fetch and the other fetched the manifest
\* itself and was served an exercise.
C16_Witness ==
    /\ ~hist.overlap
    /\ \E r, q \in DOMAIN req :
          /\ req[r].pc = "done"
          /\ req[r].response = Some(FailureResponse)
          /\ req[r].log = [manifest |-> 1, distractors |-> 0, chunks |-> 0]
          /\ req[q].pc = "done"
          /\ req[q].response[1].status = 200
          /\ req[q].log.manifest = 1

\* C17: a call of getManifest (getDistractors) made when cachedManifest
\* (cachedDistractors) is set performs no fetch; a request fetches each file
\* at most once; and when the requests of the process do not overlap, each
\* file is loaded at most once.
C17_NoFetchOnceLoaded ==
    /\ [](/\ \A r \in DOMAIN req :
               req[r].log.manifest <= 1 /\ req[r].log.distractors <= 1
           /\ ~hist.overlap => hist.manifestLoads <= 1 /\ hist.distractorLoads <= 1)
    /\ [][\A r \in DOMAIN req :
            /\ cachedManifest # Null => req'[r].log.manifest = req[r].log.manifest
            /\ cachedDistractors # Null =>
                  req'[r].log.distractors = req[r].log.distractors]_vars

\* C17 witness: of two requests that did not overlap, one fetched the
\* manifest and the pool, and the other fetched neither and was served an
\* exercise.
C17_Witness ==
    /\ ~hist.overlap
    /\ hist.manifestLoads = 1 /\ hist.distractorLoads = 1
    /\ \E r, q \in DOMAIN req :
          /\ req[r].pc = "done"
          /\ req[r].log.manifest = 1 /\ req[r].log.distractors = 1
          /\ req[q].pc = "done"
          /\ req[q].response[1].status = 200
          /\ req[q].log = [manifest |-> 0, distractors |-> 0, chunks |-> 1]

\* C18: a cache variable that is set keeps its value in every step, whichever
\* requests are in progress: it is neither assigned another value nor reset.
C18_CacheIsStableOnceSet ==
    [][/\ cachedManifest # Null => cachedManifest' = cachedManifest
       /\ cachedDistractors # Null => cachedDistractors' = cachedDistractors]_vars

\* C18 witness: overlapping requests assigned each cache variable twice.
C18_Witness ==
    /\ hist.overlap
    /\ hist.manifestLoads = 2
    /\ hist.distractorLoads = 2
    /\ cachedManifest = Some(corpus.manifest)
    /\ cachedDistractors = Some(corpus.distractors)

\* C19: for every sentence index i a request draws, 0 <= i < manifest.total,
\* the chunk index is floor(i / chunk_size), and the index in the chunk is at
\* least 0, less than chunk_size, and adds to chunk_index * chunk_size to give i.
C19_ChunkArithmetic ==
    \A r \in DOMAIN req :
        req[r].pc = "chunk" =>
            LET i == req[r].sentenceIndex
                size == req[r].manifest[1].chunk_size
            IN  /\ 0 <= i /\ i < req[r].manifest[1].total
                /\ 0 <= req[r].indexInChunk /\ req[r].indexInChunk < size
                /\ req[r].chunkIndex * size + req[r].indexInChunk = i
                /\ req[r].chunkIndex * size <= i
                /\ i < (req[r].chunkIndex + 1) * size

\* C19 witness: a request drew index 11 of a corpus in chunks of 4, and asked
\* for chunk 2, record 3.
C19_Witness ==
    \E r \in DOMAIN req :
        /\ req[r].pc = "chunk"
        /\ req[r].manifest[1].chunk_size = 4
        /\ req[r].sentenceIndex = 11
        /\ req[r].chunkIndex = 2
        /\ req[r].indexInChunk = 3

\* The tokens written one after the other, sep between neighbours, built from
\* the last token backwards
RECURSIVE WrittenOut(_, _)
WrittenOut(tokens, sep) ==
    IF Len(tokens) = 0 THEN <<>>
    ELSE IF Len(tokens) = 1 THEN tokens[1]
    ELSE WrittenOut(SubSeq(tokens, 1, Len(tokens) - 1), sep)
             \o sep \o tokens[Len(tokens)]

\* C22: whatever the verdict, expected is the display text of the exercise
\* (the translation's text, not normalized), and submitted is the submitted
\* tokens joined with one space for Turkish and with nothing between them for
\* Korean, Japanese and Chinese.
C22_ExpectedAndSubmittedFields ==
    pc = "graded" =>
        /\ result.expected = exercises[language].text
        /\ result.expected = sentence.translations[language].text
        /\ result.submitted =
              WrittenOut(userTokens, IF language = "tr" THEN <<32>> ELSE <<>>)

\* C22 witness: a Korean submission of two tiles was graded incorrect for an
\* exercise whose text holds punctuation.
C22_Witness ==
    /\ pc = "graded"
    /\ language = "ko"
    /\ Len(userTokens) = 2
    /\ result.correct = FALSE
    /\ result.submitted = userTokens[1] \o userTokens[2]
    /\ normalize(result.expected) # result.expected

\* C30 (as claimed): in concatenative mode, every answer that can be placed
\* from the tiles and joins to the same string as the graded answer gets the
\* same verdict, and an answer that joins to the same string as the expected
\* tokens is graded correct.
C30_VerdictDependsOnConcatenationOnly ==
    (pc = "graded" /\ language \in ConcatenativeLanguages) =>
        /\ \A other \in Answers(exercises[language].tiles, MaxAnswer) :
              join(other, <<>>) = join(userTokens, <<>>) =>
                  gradeUnifiedAnswer(exercises[language], other, language).correct
                      = result.correct
        /\ join(userTokens, <<>>) = join(exercises[language].tokens, <<>>) =>
              result.correct = TRUE

\* C29 (as claimed): in token-sequence mode the normalized text of every
\* selected distractor differs from the normalized text of every expected
\* token, and a submission graded correct consists of correct tokens only.
C29_NoDistractorIsGradingEquivalent ==
    /\ Built => \A l \in DOMAIN exercises \cap TokenSequenceLanguages :
                   \A d \in Range(selected[l]), t \in Range(exercises[l].tokens) :
                       normalize(d) # normalize(t)
    /\ (pc = "graded" /\ language \in TokenSequenceLanguages /\ result.correct = TRUE)
          => Range(userTokens) \subseteq Range(exercises[language].tokens)

\* C29 (amended): in token-sequence mode the text of every selected
\* distractor differs from every expected token as a string, and the tokens
\* of a submission graded correct are equal, once normalized, to the expected
\* tokens at their positions.
C29_NoDistractorIsStringEqual ==
    /\ Built => \A l \in DOMAIN exercises \cap TokenSequenceLanguages :
                   \A i \in 1..Len(selected[l]), k \in 1..Len(exercises[l].tokens) :
                       selected[l][i] # exercises[l].tokens[k]
    /\ (pc = "graded" /\ language \in TokenSequenceLanguages /\ result.correct = TRUE)
          => /\ Len(userTokens) = Len(exercises[language].tokens)
             /\ \A i \in 1..Len(userTokens) :
                   normalize(userTokens[i]) = normalize(exercises[language].tokens[i])

\* C29 witness: a Turkish submission holding a distractor that differs from
\* the expected token by a full stop was graded correct.
C29_Witness ==
    /\ pc = "graded"
    /\ language = "tr"
    /\ result.correct = TRUE
    /\ \E i \in 1..Len(userTokens) :
          /\ userTokens[i] \in Range(selected["tr"])
          /\ userTokens[i] \notin Range(exercises["tr"].tokens)

\* the positions of s whose character is not in chars, as one string
WithoutChars(s, chars) ==
    LET kept == {i \in 1..Len(s) : s[i] \notin chars}
        nth(k) == CHOOSE i \in kept : Cardinality({j \in kept : j < i}) = k - 1
    IN [k \in 1..Cardinality(kept) |-> s[nth(k)]]

\* C28: the server's normalizeForGrading is insensitive to every character
\* of its own punctuation set: two strings that differ only by characters of
\* PUNCTUATION_CHARS (full-width colon, semicolon, wave dash included) have
\* the same normalized form, although NFKC runs first.
C28_ServerIgnoresItsPunctuation ==
    (pc = "normalized" /\ strB = WithoutChars(strA, GRADE_PUNCTUATION_CHARS))
        => srvA = srvB

RECURSIVE Factorial(_)
Factorial(n) == IF n = 0 THEN 1 ELSE n * Factorial(n - 1)

\* C24: the shuffle is unbiased. For an array of n distinct elements every
\* result is a permutation of the array, no two sequences of random index
\* choices give the same result, and the results of all choice sequences are
\* n! in number, so every permutation comes from exactly one choice
\* sequence; the call leaves the array it was given as it was.
C24_ShuffleIsUnbiased ==
    /\ [](pc = "shuffled" =>
            LET n == Len(shuffleInput)
                outcomes == {shuffle(shuffleInput, js) : js \in ChoiceSeqs(n)}
            IN  /\ Len(shuffleOutput) = n
                /\ Range(shuffleOutput) = Range(shuffleInput)
                /\ \A js \in ChoiceSeqs(n) :
                      shuffle(shuffleInput, js) = shuffleOutput => js = shuffleChoices
                /\ Cardinality(ChoiceSeqs(n)) = Factorial(n)
                /\ Cardinality(outcomes) = Factorial(n))
    /\ [][pc' = "shuffled" => shuffleInput' = shuffleInput]_vars

\* C24 witness: an array of three elements came back reversed, and the
\* argument is still in its order.
C24_Witness ==
    /\ pc = "shuffled"
    /\ shuffleInput = <<1, 2, 3>>
    /\ shuffleOutput = <<3, 2, 1>>

\* C21: a grading request whose exercise_id is not a number or whose answer
\* is not a string is answered 400 'Invalid request body'; no chunk fetch was
\* made for it, normalizeForGrading was not called, and the response carries
\* no verdict. A body that cannot be parsed or destructured never reaches
\* the fetch or the normalization either.
C21_MalformedRequestIsRejectedFirst ==
    LET wrongTypes ==
            /\ gradeBody.json = "object"
            /\ \/ "exercise_id" \notin DOMAIN gradeBody.fields
               \/ "answer" \notin DOMAIN gradeBody.fields
               \/ gradeBody.fields["exercise_id"].type # "number"
               \/ gradeBody.fields["answer"].type # "string"
    IN  /\ wrongTypes
              => /\ gradeCall.pc \in {"received", "done"}
                 /\ gradeCall.fetch = "none"
                 /\ gradeLog = [fetches |-> 0, normalizations |-> 0]
                 /\ gradeCall.pc = "done" =>
                       gradeResponse = Some(ErrorResponse(400, "Invalid request body"))
                 /\ gradeResponse # Null => "correct" \notin DOMAIN gradeResponse[1]
        /\ gradeBody.json \in {"null", "unparsable"}
              => /\ gradeLog = [fetches |-> 0, normalizations |-> 0]
                 /\ gradeResponse # Null => "correct" \notin DOMAIN gradeResponse[1]

\* C21 witness: a request with a numeric exercise_id and a numeric answer
\* was answered 400.
C21_Witness ==
    /\ gradeCall.pc = "done"
    /\ gradeBody.json = "object"
    /\ typeOf(gradeBody.fields, "exercise_id") = "number"
    /\ typeOf(gradeBody.fields, "answer") = "number"
    /\ gradeResponse = Some(ErrorResponse(400, "Invalid request body"))

\* C26: tile conservation. Whenever no load is in progress and the active
\* language has an exercise, the answer tiles and the bank tiles are
\* disjoint and together are exactly the tiles of that exercise, each tile
\* id once.
C26_TilesAreConserved ==
    (~loading /\ currentExercise # Null) =>
        LET all == answerTiles \o bankTiles
            expected == apiTilesToTileData(currentExercise[1].tiles)
        IN  /\ Len(all) = Len(expected)
            /\ Range(all) = Range(expected)
            /\ \A i, k \in 1..Len(all) : all[i].id = all[k].id => i = k

\* The 'Next Exercise' button is shown, or the controls shown can lead to
\* it: the button is in the result panel, the panel needs a submit, and a
\* submit needs a tile of the active language or of a language the switcher
\* offers
RetryWithinReach ==
    /\ PageRendered
    /\ \/ result # NoResult
       \/ answerTiles # <<>>
       \/ bankTiles # <<>>
       \/ \E l \in DOMAIN unifiedExercise[1].exercises \ {language} :
             IF languageStates[l] = Null
             THEN unifiedExercise[1].exercises[l].tiles # <<>>
             ELSE \/ languageStates[l][1].answerTiles # <<>>
                  \/ languageStates[l][1].bankTiles # <<>>

\* C25: when a load has failed (the first one or one started by 'Next
\* Exercise') and the page is no longer loading, a control that calls
\* loadExercise is shown or can be reached through the controls shown.
C25_RetryRemainsAvailable ==
    (loadFailed /\ ~loading) => RetryWithinReach

\* C27: within one exercise, a switch to a language that was left earlier
\* restores the answer tiles and the bank tiles it had when it was left, in
\* their order, unless resetTiles was applied to it or a new exercise was
\* loaded since; a switchToLanguage call for a language without an exercise
\* changes nothing.
C27_SwitchingBackRestoresTiles ==
    /\ [][(/\ ~loading /\ ~loading'
           /\ language' # language
           /\ unifiedExercise' = unifiedExercise
           /\ leftStates[language'] # Null)
             => /\ answerTiles' = leftStates[language'][1].answerTiles
                /\ bankTiles' = leftStates[language'][1].bankTiles]_vars
    /\ [](PageRendered =>
            \A lang \in Languages \ DOMAIN unifiedExercise[1].exercises :
                afterSwitch(lang) =
                    [languageStates |-> languageStates, language |-> language,
                     result |-> result, answerTiles |-> answerTiles,
                     bankTiles |-> bankTiles])

\* The token lists over the tiles of an exercise, up to the longest answer
\* the page holds, a tile used any number of times
TokenLists(tiles) ==
    {[i \in 1..Len(order) |-> tiles[order[i]].text] :
        order \in TileOrders(Len(tiles), MaxZoneLen)}

\* The calls of gradeUnifiedAnswer compared: every language exercise the page
\* is served, every token list over its tiles, every language (the language
\* of the exercise or another)
GradeInputs ==
    UNION {UNION {{[langExercise |-> response.exercises[l], tokens |-> t, lang |-> g] :
                      t \in TokenLists(response.exercises[l].tiles),
                      g \in Languages} :
                    l \in DOMAIN response.exercises} :
             response \in PageResponses}

====
